---- MODULE Spec2Model ----
(***************************************************************************)
(* Model of agent-skills-go: the AgentLoop turn-taking loop (package       *)
(* agent), the tool Registry (package tools) and the path / command guards *)
(* the tools call.  Go strings that the code inspects character by         *)
(* character (paths, command lines, user input) are sequences of           *)
(* one-character strings; names and fixed message texts are TLA+ strings.  *)
(***************************************************************************)
EXTENDS Integers, Sequences, FiniteSets, TLC

(***************************************************************************)
(* Bounds of the model.                                                    *)
(***************************************************************************)
\* largest configured max_turns the model explores
MaxTurnsBound == 2
\* number of Run calls explored in one conversation
MaxRuns == 2
\* number of bits at which the model wraps int64 arithmetic around
IntBits == 24

(***************************************************************************)
(* strings / path/filepath helpers, as the Go standard library computes    *)
(* them on Unix.                                                           *)
(***************************************************************************)
Sep == "/"

HasPrefix(s, p) == Len(p) <= Len(s) /\ SubSeq(s, 1, Len(p)) = p

Contains(s, sub) ==
    \E i \in 1..(Len(s) - Len(sub) + 1) : SubSeq(s, i, i + Len(sub) - 1) = sub

IsSpace(c) == c \in {" ", "\t", "\n", "\r"}

RECURSIVE TrimLeft(_)
TrimLeft(s) ==
    IF s # <<>> /\ IsSpace(Head(s)) THEN TrimLeft(Tail(s)) ELSE s

RECURSIVE TrimRight(_)
TrimRight(s) ==
    IF s # <<>> /\ IsSpace(s[Len(s)]) THEN TrimRight(SubSeq(s, 1, Len(s) - 1)) ELSE s

TrimSpace(s) == TrimRight(TrimLeft(s))

UpperLetters ==
    <<"A","B","C","D","E","F","G","H","I","J","K","L","M",
      "N","O","P","Q","R","S","T","U","V","W","X","Y","Z">>

LowerLetters ==
    <<"a","b","c","d","e","f","g","h","i","j","k","l","m",
      "n","o","p","q","r","s","t","u","v","w","x","y","z">>

ToLowerChar(c) ==
    IF \E i \in 1..26 : UpperLetters[i] = c
    THEN LowerLetters[CHOOSE i \in 1..26 : UpperLetters[i] = c]
    ELSE c

ToLower(s) == [i \in 1..Len(s) |-> ToLowerChar(s[i])]

\* strings.Split(s, sep) for a one-character separator
RECURSIVE SplitFrom(_, _, _)
SplitFrom(s, sep, cur) ==
    IF s = <<>> THEN <<cur>>
    ELSE IF Head(s) = sep THEN <<cur>> \o SplitFrom(Tail(s), sep, <<>>)
    ELSE SplitFrom(Tail(s), sep, Append(cur, Head(s)))

Split(s, sep) == SplitFrom(s, sep, <<>>)

RECURSIVE Join(_, _)
Join(parts, sep) ==
    IF parts = <<>> THEN <<>>
    ELSE IF Len(parts) = 1 THEN parts[1]
    ELSE parts[1] \o <<sep>> \o Join(Tail(parts), sep)

DotDot == <<".", ".">>

RECURSIVE NonEmptyParts(_)
NonEmptyParts(parts) ==
    IF parts = <<>> THEN <<>>
    ELSE IF Head(parts) = <<>> THEN NonEmptyParts(Tail(parts))
    ELSE <<Head(parts)>> \o NonEmptyParts(Tail(parts))

IsAbs(path) == path # <<>> /\ path[1] = Sep

\* the element stack filepath.Clean builds: "." dropped, ".." pops the
\* element before it, is dropped at the root, and kept at the front of a
\* relative path
RECURSIVE CleanStack(_, _, _)
CleanStack(parts, rooted, stack) ==
    IF parts = <<>> THEN stack
    ELSE LET p == Head(parts) IN
         IF p = <<".">> THEN CleanStack(Tail(parts), rooted, stack)
         ELSE IF p = DotDot
              THEN IF stack # <<>> /\ stack[Len(stack)] # DotDot
                   THEN CleanStack(Tail(parts), rooted, SubSeq(stack, 1, Len(stack) - 1))
                   ELSE IF rooted
                        THEN CleanStack(Tail(parts), rooted, stack)
                        ELSE CleanStack(Tail(parts), rooted, Append(stack, p))
              ELSE CleanStack(Tail(parts), rooted, Append(stack, p))

\* the path filepath.Clean returns for the elements it kept
CleanJoin(rooted, stack) ==
    IF rooted THEN <<Sep>> \o Join(stack, Sep)
    ELSE IF stack = <<>> THEN <<".">> ELSE Join(stack, Sep)

\* filepath.Clean
Clean(path) ==
    IF path = <<>> THEN <<".">>
    ELSE CleanJoin(IsAbs(path),
                   CleanStack(NonEmptyParts(Split(path, Sep)), IsAbs(path), <<>>))

\* the process's working directory, which filepath.Abs prepends
Cwd == <<"/", "s">>

\* filepath.Abs
Abs(path) ==
    IF IsAbs(path) THEN Clean(path) ELSE Clean(Cwd \o <<Sep>> \o path)

RECURSIVE CommonLen(_, _)
CommonLen(b, t) ==
    IF b = <<>> \/ t = <<>> \/ Head(b) # Head(t) THEN 0
    ELSE 1 + CommonLen(Tail(b), Tail(t))

\* one ".." per element of the base after the common prefix, then the rest
\* of the target
RelElements(b, t, c) == [i \in 1..(Len(b) - c) |-> DotDot] \o SubSeq(t, c + 1, Len(t))

RelJoin(rest) == IF rest = <<>> THEN <<".">> ELSE Join(rest, Sep)

RelOfElements(b, t) == RelJoin(RelElements(b, t, CommonLen(b, t)))

\* filepath.Rel(base, targ) for two absolute paths (it cannot fail on those)
Rel(base, targ) ==
    RelOfElements(NonEmptyParts(Split(Clean(base), Sep)),
                  NonEmptyParts(Split(Clean(targ), Sep)))

RECURSIVE StripTrailingSep(_)
StripTrailingSep(s) ==
    IF s # <<>> /\ s[Len(s)] = Sep THEN StripTrailingSep(SubSeq(s, 1, Len(s) - 1)) ELSE s

LastOf(parts) == parts[Len(parts)]

BaseOfStripped(s) == IF s = <<>> THEN <<Sep>> ELSE LastOf(Split(s, Sep))

\* filepath.Base
Base(path) == IF path = <<>> THEN <<".">> ELSE BaseOfStripped(StripTrailingSep(path))

\* the backquote character (a TLA+ string literal cannot hold it)
Backtick == "BACKQUOTE"

\* byte order of the characters the model uses (Go compares strings bytewise)
ByteOrder ==
    <<"\t", "\n", "\r", " ", "\"", "$", "&", "'", "(", "-", ".", "/",
      "0", "1", "2", "3", "4", "5", "6", "7", "8", "9", ";", "<", ">">>
    \o UpperLetters \o <<"\\", "_", Backtick>> \o LowerLetters \o <<"|">>

ByteRank(c) == CHOOSE i \in 1..Len(ByteOrder) : ByteOrder[i] = c

RECURSIVE StrLess(_, _)
StrLess(s, t) ==
    IF t = <<>> THEN FALSE
    ELSE IF s = <<>> THEN TRUE
    ELSE IF Head(s) = Head(t) THEN StrLess(Tail(s), Tail(t))
    ELSE ByteRank(Head(s)) < ByteRank(Head(t))

RECURSIVE InsertSorted(_, _)
InsertSorted(sorted, s) ==
    IF sorted = <<>> THEN <<s>>
    ELSE IF StrLess(s, Head(sorted)) THEN <<s>> \o sorted
    ELSE <<Head(sorted)>> \o InsertSorted(Tail(sorted), s)

\* slices.Sort on a list of strings
RECURSIVE SortStrings(_)
SortStrings(list) ==
    IF list = <<>> THEN <<>>
    ELSE InsertSorted(SortStrings(Tail(list)), Head(list))

(***************************************************************************)
(* Go error values: nil, or a message built from a fixed text, a tool name *)
(* and a quoted path / token.                                              *)
(***************************************************************************)
NoErr == [isNil |-> TRUE, text |-> "", name |-> "", arg |-> <<>>]

Err(text, name, arg) == [isNil |-> FALSE, text |-> text, name |-> name, arg |-> arg]

\* fmt.Errorf(prefix + ": %w", e)
Wrap(prefix, e) == [e EXCEPT !.text = prefix \o e.text]

\* err.Error() = ""
ErrorStringEmpty(e) == e.text = "" /\ e.name = "" /\ e.arg = <<>>

(***************************************************************************)
(* PathGuard (security helpers).                                           *)
(***************************************************************************)
\* the seen-map of normalizeAllowedDirs: a directory is kept once
AddUnseen(acc, abs) ==
    IF \E i \in 1..Len(acc) : acc[i] = abs THEN acc ELSE Append(acc, abs)

RECURSIVE NormalizeFrom(_, _)
NormalizeFrom(dirs, acc) ==
    IF dirs = <<>> THEN acc
    ELSE IF TrimSpace(Head(dirs)) = <<>> THEN NormalizeFrom(Tail(dirs), acc)
    ELSE NormalizeFrom(Tail(dirs), AddUnseen(acc, Clean(Abs(TrimSpace(Head(dirs))))))

normalizeAllowedDirs(allowedDirs) == SortStrings(NormalizeFrom(allowedDirs, <<>>))

HasElement(parts, x) == \E i \in 1..Len(parts) : parts[i] = x

\* the traversal test on the two characters instead of on the segments
hasParentTraversalSubstring(cleanPath) == Contains(cleanPath, DotDot)

hasParentTraversal(cleanPath) ==
    \/ cleanPath = DotDot
    \/ HasElement(Split(cleanPath, Sep), DotDot)

\* an acceptance test that forgets the parent of the root itself
relInsideRootLoose(rel) == rel = <<".">> \/ ~HasPrefix(rel, DotDot \o <<Sep>>)

\* the acceptance test applied to filepath.Rel(root, absPath)
relInsideRoot(rel) ==
    rel = <<".">> \/ (~HasPrefix(rel, DotDot \o <<Sep>>) /\ rel # DotDot)

\* a containment test on the strings: the absolute path starts with the
\* characters of a root
validateInRootsByPrefix(absPath, roots) ==
    IF Len(roots) = 0
    THEN [path |-> absPath, err |-> NoErr]
    ELSE IF \E i \in 1..Len(roots) : HasPrefix(absPath, roots[i])
    THEN [path |-> absPath, err |-> NoErr]
    ELSE [path |-> <<>>, err |-> Err("path outside allowed directories: ", "", absPath)]

\* validatePathWithAllowedDirs from the root list on
validateInRoots(absPath, roots) ==
    IF Len(roots) = 0
    THEN [path |-> absPath, err |-> NoErr]
    ELSE IF \E i \in 1..Len(roots) : relInsideRoot(Rel(roots[i], absPath))
    THEN [path |-> absPath, err |-> NoErr]
    ELSE [path |-> <<>>, err |-> Err("path outside allowed directories: ", "", absPath)]

\* a validation that looks for traversal only when roots are configured
validateCleanedUnrestricted(path, cleanPath, allowedDirs) ==
    IF Len(normalizeAllowedDirs(allowedDirs)) = 0
    THEN [path |-> Abs(cleanPath), err |-> NoErr]
    ELSE IF hasParentTraversal(cleanPath)
    THEN [path |-> <<>>, err |-> Err("path traversal not allowed: ", "", path)]
    ELSE validateInRoots(Abs(cleanPath), normalizeAllowedDirs(allowedDirs))

\* validatePathWithAllowedDirs from the traversal check on
validateCleaned(path, cleanPath, allowedDirs) ==
    IF hasParentTraversal(cleanPath)
    THEN [path |-> <<>>, err |-> Err("path traversal not allowed: ", "", path)]
    ELSE validateInRoots(Abs(cleanPath), normalizeAllowedDirs(allowedDirs))

validatePathWithAllowedDirs(path, allowedDirs) ==
    IF path = <<>>
    THEN [path |-> <<>>, err |-> Err("path cannot be empty", "", <<>>)]
    ELSE validateCleaned(path, Clean(path), allowedDirs)

validateWorkingDirWithAllowedDirs(workingDir, allowedDirs) ==
    IF workingDir = <<>>
    THEN [path |-> <<>>, err |-> NoErr]
    ELSE validatePathWithAllowedDirs(workingDir, allowedDirs)

(***************************************************************************)
(* CommandGuard.                                                           *)
(***************************************************************************)
dangerousCommands ==
    { <<"r","m">>,
      <<"r","m","d","i","r">>,
      <<"d","d">>,
      <<"m","k","f","s">>,
      <<"f","d","i","s","k">>,
      <<"s","h","u","t","d","o","w","n">>,
      <<"r","e","b","o","o","t">>,
      <<"h","a","l","t">>,
      <<"p","o","w","e","r","o","f","f">>,
      <<"i","n","i","t">>,
      <<"k","i","l","l","a","l","l">>,
      <<"k","i","l","l">>,
      <<"p","k","i","l","l">>,
      <<"k","i","l","l","a","l","l","5">>,
      <<"c","h","m","o","d">>,
      <<"c","h","o","w","n">>,
      <<"c","h","g","r","p">>,
      <<"m","o","u","n","t">>,
      <<"u","m","o","u","n","t">>,
      <<"p","a","r","t","e","d">>,
      <<"s","f","d","i","s","k">>,
      <<"w","i","p","e","f","s">>,
      <<"m","k","f","s",".","e","x","t">>,
      <<"m","k","f","s",".","v","f","a","t">>,
      <<"m","k","f","s",".","n","t","f","s">>,
      <<"m","k","f","s",".","e","x","t","2">>,
      <<"m","k","f","s",".","e","x","t","3">>,
      <<"m","k","f","s",".","e","x","t","4">>,
      <<"m","k","f","s",".","x","f","s">>,
      <<"m","k","f","s",".","b","t","r","f","s">> }

shellExecutables ==
    { <<"s","h">>,
      <<"b","a","s","h">>,
      <<"z","s","h">>,
      <<"d","a","s","h">>,
      <<"f","i","s","h">> }

\* the lookup both checks make with the lower-cased base name
blockedName(baseCmd, names) == IF baseCmd = <<>> THEN FALSE ELSE baseCmd \in names

\* a denylist lookup that compares the base name as it is spelled
isDangerousExecutableExact(executable) ==
    blockedName(Base(TrimSpace(executable)), dangerousCommands)

isDangerousExecutable(executable) ==
    blockedName(ToLower(Base(TrimSpace(executable))), dangerousCommands)

\* a shell lookup that keeps the directory prefix
isShellExecutableNoBase(executable) ==
    blockedName(ToLower(TrimSpace(executable)), shellExecutables)

isShellExecutable(executable) ==
    blockedName(ToLower(Base(TrimSpace(executable))), shellExecutables)

\* a list of blocked tokens without the two command substitutions
blockedShellSyntaxOperators ==
    << <<"&","&">>, <<"|","|">>, <<";">>, <<"|">>, <<">">>, <<"<">>,
       <<"\n">>, <<"\r">> >>

blockedShellSyntax ==
    << <<"&","&">>, <<"|","|">>, <<";">>, <<"|">>, <<">">>, <<"<">>,
       <<Backtick>>, <<"$","(">>, <<"\n">>, <<"\r">> >>

\* the position in blocked of the first token the command contains
firstBlocked(command, blocked) ==
    CHOOSE i \in 1..Len(blocked) :
        /\ Contains(command, blocked[i])
        /\ \A j \in 1..(i - 1) : ~Contains(command, blocked[j])

\* returns the first blocked token the command contains, in list order
containsBlockedShellSyntax(command) ==
    IF \E i \in 1..Len(blockedShellSyntax) : Contains(command, blockedShellSyntax[i])
    THEN [token |-> blockedShellSyntax[firstBlocked(command, blockedShellSyntax)],
          blocked |-> TRUE]
    ELSE [token |-> <<>>, blocked |-> FALSE]

\* a flush that appends the current token even when it is empty
flushAlways(st) ==
    [st EXCEPT !.args = Append(st.args, st.current), !.current = <<>>]

\* flush: append the current token unless it is empty
flush(st) ==
    IF st.current = <<>> THEN st
    ELSE [st EXCEPT !.args = Append(st.args, st.current), !.current = <<>>]

\* a rune loop in which single quotes do not switch the backslash off
parseStepEscapeInSingle(st, r) ==
    IF st.escaped
    THEN [st EXCEPT !.current = Append(st.current, r), !.escaped = FALSE]
    ELSE IF r = "\\"
    THEN [st EXCEPT !.escaped = TRUE]
    ELSE IF r = "'" /\ ~st.inDouble
    THEN [st EXCEPT !.inSingle = ~st.inSingle]
    ELSE IF r = "\"" /\ ~st.inSingle
    THEN [st EXCEPT !.inDouble = ~st.inDouble]
    ELSE IF (r = " " \/ r = "\t") /\ ~st.inSingle /\ ~st.inDouble
    THEN flush(st)
    ELSE [st EXCEPT !.current = Append(st.current, r)]

\* one iteration of the rune loop of parseCommandLine
parseStep(st, r) ==
    IF st.escaped
    THEN [st EXCEPT !.current = Append(st.current, r), !.escaped = FALSE]
    ELSE IF r = "\\" /\ ~st.inSingle
    THEN [st EXCEPT !.escaped = TRUE]
    ELSE IF r = "'" /\ ~st.inDouble
    THEN [st EXCEPT !.inSingle = ~st.inSingle]
    ELSE IF r = "\"" /\ ~st.inSingle
    THEN [st EXCEPT !.inDouble = ~st.inDouble]
    ELSE IF (r = " " \/ r = "\t") /\ ~st.inSingle /\ ~st.inDouble
    THEN flush(st)
    ELSE [st EXCEPT !.current = Append(st.current, r)]

RECURSIVE parseLoop(_, _)
parseLoop(st, input) ==
    IF input = <<>> THEN st ELSE parseLoop(parseStep(st, Head(input)), Tail(input))

\* parseCommandLine after the rune loop
parseEnd(st) ==
    IF st.escaped
    THEN [args |-> <<>>, err |-> Err("unterminated escape in command", "", <<>>)]
    ELSE IF st.inSingle \/ st.inDouble
    THEN [args |-> <<>>, err |-> Err("unterminated quote in command", "", <<>>)]
    ELSE [args |-> flush(st).args, err |-> NoErr]

parseCommandLine(input) ==
    parseEnd(parseLoop([args |-> <<>>, current |-> <<>>, inSingle |-> FALSE,
                        inDouble |-> FALSE, escaped |-> FALSE], input))

(***************************************************************************)
(* The host file system and the processes the tools act on.                *)
(***************************************************************************)
LastSep(path) ==
    CHOOSE i \in 1..Len(path) : path[i] = Sep /\ \A j \in (i + 1)..Len(path) : path[j] # Sep

\* filepath.Dir
Dir(path) ==
    IF ~Contains(path, <<Sep>>) THEN <<".">> ELSE Clean(SubSeq(path, 1, LastSep(path)))

\* os.Stat succeeds
Exists(files, path) == path \in DOMAIN files

\* the directory and every ancestor of it, root first
RECURSIVE Ancestors(_)
Ancestors(dir) ==
    IF dir = <<Sep>> \/ dir = <<".">> THEN <<dir>>
    ELSE Append(Ancestors(Dir(dir)), dir)

AnyIsFile(files, anc) ==
    \E i \in 1..Len(anc) : Exists(files, anc[i]) /\ ~files[anc[i]].isDir

\* os.MkdirAll fails when a component exists and is not a directory
MkdirAllFails(files, dir) == AnyIsFile(files, Ancestors(dir))

WithDirs(files, new) ==
    [p \in DOMAIN files \cup new |->
        IF p \in DOMAIN files THEN files[p] ELSE [isDir |-> TRUE, content |-> <<>>]]

Elements(seq) == {seq[i] : i \in 1..Len(seq)}

\* os.MkdirAll
MkdirAll(files, dir) == WithDirs(files, Elements(Ancestors(dir)))

\* os.WriteFile: fails when the target is a directory or its parent is missing
WriteFileFails(files, path) ==
    \/ Exists(files, path) /\ files[path].isDir
    \/ ~Exists(files, Dir(path))
    \/ ~files[Dir(path)].isDir

WriteFile(files, path, content) ==
    [p \in DOMAIN files \cup {path} |->
        IF p = path THEN [isDir |-> FALSE, content |-> content] ELSE files[p]]

validateFileExists(files, path) ==
    IF ~Exists(files, path) THEN Err("no such file or directory: ", "", path)
    ELSE IF files[path].isDir THEN Err("path is a directory: ", "", path)
    ELSE NoErr

\* what can happen to a started command: it exits with status 0, it exits
\* with a non-zero status, it is killed when the deadline expires (Wait
\* reports the kill signal), the deadline is reported as the context's
\* error, or the executable cannot be started
ProcOutcomes == {"exit0", "exitNonZero", "killed", "deadline", "startFailed"}

\* the error cmd.Run() returns and, for an *exec.ExitError, its ExitCode()
RunError(outcome) ==
    CASE outcome = "exit0"       -> [err |-> NoErr, isExitError |-> FALSE, code |-> 0]
      [] outcome = "exitNonZero" -> [err |-> Err("exit status 1", "", <<>>),
                                     isExitError |-> TRUE, code |-> 1]
      [] outcome = "killed"      -> [err |-> Err("signal: killed", "", <<>>),
                                     isExitError |-> TRUE, code |-> -1]
      [] outcome = "deadline"    -> [err |-> Err("context deadline exceeded", "", <<>>),
                                     isExitError |-> FALSE, code |-> 0]
      [] outcome = "startFailed" -> [err |-> Err("executable file not found in $PATH", "", <<>>),
                                     isExitError |-> FALSE, code |-> 0]

DefaultTimeoutSeconds == 60

\* the exit code runCommand derives from the error of cmd.Run()
exitCodeOf(run) ==
    IF run.err.isNil THEN 0
    ELSE IF run.isExitError THEN run.code
    ELSE -1

\* a deadline taken from the argument as it is given
deadlineOfAsGiven(timeout) == timeout

\* the deadline runCommand gives the command, in seconds
deadlineOf(timeout) == IF timeout <= 0 THEN DefaultTimeoutSeconds ELSE timeout

\* Context.runCommand; the captured output and the duration are not modelled
runCommand(command, args, workingDir, timeout, outcome) ==
    [kind |-> "commandResult", Command |-> command, Args |-> args,
     WorkingDir |-> workingDir, ExitCode |-> exitCodeOf(RunError(outcome)),
     Error |-> RunError(outcome).err, deadline |-> deadlineOf(timeout)]

(***************************************************************************)
(* ToolRegistry: the envelope and the three built-in tools.                *)
(***************************************************************************)
DefaultMaxReadBytes == 1024 * 1024

\* a nil interface value in toolResponse.Data
NilData == [kind |-> "nil"]

\* json.Marshal of a toolResponse: "ok" is always written, the omitempty
\* fields only when they are not the zero value.  The payloads of the tools
\* hold strings, integers and booleans only, which json.Marshal cannot
\* reject, so the error result is always nil.
jsonMarshal(resp) ==
    [keys |-> {"ok"}
              \cup (IF resp.Tool # "" THEN {"tool"} ELSE {})
              \cup (IF resp.Data # NilData THEN {"data"} ELSE {})
              \cup (IF ~ErrorStringEmpty(resp.Err) THEN {"error"} ELSE {}),
     ok |-> resp.OK, tool |-> resp.Tool, data |-> resp.Data, error |-> resp.Err]

\* a marshalToolResponse that reports every call as a success
marshalToolResponseAlwaysOK(toolName, data, err) ==
    [output |-> jsonMarshal([OK |-> TRUE, Tool |-> toolName, Data |-> data,
                             Err |-> IF ~err.isNil THEN err ELSE NoErr]),
     err |-> NoErr]

marshalToolResponse(toolName, data, err) ==
    [output |-> jsonMarshal([OK |-> err.isNil, Tool |-> toolName, Data |-> data,
                             Err |-> IF ~err.isNil THEN err ELSE NoErr]),
     err |-> NoErr]

\* the arguments object after json.Unmarshal into the tool's struct: a key
\* the model left out keeps the zero value of its field
ZeroArgs ==
    [wellformed |-> TRUE, has |-> {}, path |-> <<>>, content |-> <<>>,
     overwrite |-> FALSE, max_bytes |-> 0, command |-> <<>>,
     working_dir |-> <<>>, timeout_seconds |-> 0]

Unmarshal(argText) ==
    [path            |-> IF "path" \in argText.has THEN argText.path ELSE <<>>,
     content         |-> IF "content" \in argText.has THEN argText.content ELSE <<>>,
     overwrite       |-> IF "overwrite" \in argText.has THEN argText.overwrite ELSE FALSE,
     max_bytes       |-> IF "max_bytes" \in argText.has THEN argText.max_bytes ELSE 0,
     command         |-> IF "command" \in argText.has THEN argText.command ELSE <<>>,
     working_dir     |-> IF "working_dir" \in argText.has THEN argText.working_dir ELSE <<>>,
     timeout_seconds |-> IF "timeout_seconds" \in argText.has
                         THEN argText.timeout_seconds ELSE 0]

JSONSyntaxError == Err("invalid character in JSON arguments", "", <<>>)

\* the result of a tool's execute: the returned (string, error) pair, the
\* file system it leaves, and the commands it ran
ToolReturn(m, files, procs) ==
    [output |-> m.output, err |-> m.err, files |-> files, procs |-> procs]

\* the allowed roots the tools are built with (Config.AllowedDir defaults to
\* the working directory)
AllowedDirs == <<Cwd>>

\* Context.MaxReadBytes as New sets it
MaxReadBytes == DefaultMaxReadBytes

\* a tool's return through marshalToolResponse with an error
Fail(toolName, err, files) ==
    ToolReturn(marshalToolResponse(toolName, NilData, err), files, <<>>)

\* the sum of two int64 values: Go wraps around on overflow.  The model keeps
\* the wrap-around at IntBits bits instead of 64, which is wide enough for
\* DefaultMaxReadBytes
WrapInt(x) == ((x + 2^(IntBits - 1)) % 2^IntBits) - 2^(IntBits - 1)

\* the bytes io.ReadAll gets from io.LimitReader(file, n): none when n <= 0
limitedTo(whole, n) ==
    IF n <= 0 THEN <<>>
    ELSE SubSeq(whole, 1, IF Len(whole) < n THEN Len(whole) ELSE n)

\* the bytes io.ReadAll gets from the LimitReader of maxBytes+1
readLimited(whole, maxBytes) == limitedTo(whole, WrapInt(maxBytes + 1))

\* the truncation of the bytes read and the payload built from them
readResult(path, data, maxBytes) ==
    [kind |-> "readResult", path |-> path,
     bytes |-> IF Len(data) > maxBytes THEN maxBytes ELSE Len(data),
     truncated |-> Len(data) > maxBytes,
     content |-> IF Len(data) > maxBytes THEN SubSeq(data, 1, maxBytes) ELSE data]

\* readFileTool.execute from the max_bytes check on
readFileBounded(path, maxBytes, files) ==
    IF maxBytes <= 0
    THEN Fail("read_file", Err("max_bytes must be greater than 0", "", <<>>), files)
    ELSE ToolReturn(marshalToolResponse("read_file",
                        readResult(path, readLimited(files[path].content, maxBytes), maxBytes),
                        NoErr), files, <<>>)

\* readFileTool.execute from the existence check on
readFileExisting(args, path, statErr, files) ==
    IF ~statErr.isNil
    THEN Fail("read_file", statErr, files)
    ELSE readFileBounded(path, IF args.max_bytes <= 0 THEN MaxReadBytes ELSE args.max_bytes,
                         files)

\* readFileTool.execute from the result of the path validation on
readFileValidated(args, v, files) ==
    IF ~v.err.isNil
    THEN Fail("read_file", Wrap("path validation failed: ", v.err), files)
    ELSE readFileExisting(args, v.path, validateFileExists(files, v.path), files)

\* readFileTool.execute from the decoded arguments on
readFileArgs(args, files) ==
    IF args.path = <<>>
    THEN Fail("read_file", Err("path is required", "", <<>>), files)
    ELSE readFileValidated(args, validatePathWithAllowedDirs(args.path, AllowedDirs), files)

\* readFileTool.execute; the file system is not changed
readFileExecute(argText, files) ==
    IF ~argText.wellformed
    THEN Fail("read_file", JSONSyntaxError, files)
    ELSE readFileArgs(Unmarshal(argText), files)

\* writeFileTool.execute from os.WriteFile on; made is the file system after
\* os.MkdirAll
writeFileContent(args, path, made) ==
    IF WriteFileFails(made, path)
    THEN Fail("write_file", Err("open: is a directory: ", "", path), made)
    ELSE ToolReturn(marshalToolResponse("write_file",
                        [kind |-> "writeResult", path |-> path,
                         bytes |-> Len(args.content)],
                        NoErr),
                    WriteFile(made, path, args.content), <<>>)

\* writeFileTool.execute from the creation of the parent directory on
writeFileInDir(args, path, dir, files) ==
    IF dir # <<".">> /\ dir # <<>> /\ MkdirAllFails(files, dir)
    THEN Fail("write_file", Err("mkdir: not a directory: ", "", dir), files)
    ELSE writeFileContent(args, path,
             IF dir # <<".">> /\ dir # <<>> THEN MkdirAll(files, dir) ELSE files)

\* a write_file that does not look whether the file exists
writeFileValidatedClobbering(args, v, files) ==
    IF ~v.err.isNil
    THEN Fail("write_file", Wrap("path validation failed: ", v.err), files)
    ELSE writeFileInDir(args, v.path, Dir(v.path), files)

\* writeFileTool.execute from the result of the path validation on
writeFileValidated(args, v, files) ==
    IF ~v.err.isNil
    THEN Fail("write_file", Wrap("path validation failed: ", v.err), files)
    ELSE IF ~args.overwrite /\ Exists(files, v.path)
    THEN Fail("write_file", Err("file exists: ", "", v.path), files)
    ELSE writeFileInDir(args, v.path, Dir(v.path), files)

\* writeFileTool.execute from the decoded arguments on
writeFileArgs(args, files) ==
    IF args.path = <<>>
    THEN Fail("write_file", Err("path is required", "", <<>>), files)
    ELSE writeFileValidated(args, validatePathWithAllowedDirs(args.path, AllowedDirs), files)

\* writeFileTool.execute
writeFileExecute(argText, files) ==
    IF ~argText.wellformed
    THEN Fail("write_file", JSONSyntaxError, files)
    ELSE writeFileArgs(Unmarshal(argText), files)

\* the record of one command the process runner started
Spawned(result, outcome) ==
    [command |-> result.Command, args |-> result.Args, dir |-> result.WorkingDir,
     deadline |-> result.deadline, outcome |-> outcome]

\* a run_shell that reports a command which did not exit with 0 as a failed
\* tool call
runShellRespondStrict(result, files, outcome) ==
    IF result.ExitCode # 0
    THEN ToolReturn(marshalToolResponse("run_shell", NilData, result.Error), files,
                    <<Spawned(result, outcome)>>)
    ELSE ToolReturn(marshalToolResponse("run_shell", result, NoErr), files,
                    <<Spawned(result, outcome)>>)

\* the end of runShellTool.execute: the result of runCommand is marshalled
\* with a nil error whatever the exit code
runShellRespond(result, files, outcome) ==
    ToolReturn(marshalToolResponse("run_shell", result, NoErr), files,
               <<Spawned(result, outcome)>>)

\* a run_shell that checks the first token and then hands the command line
\* to a shell
runShellInDirViaShell(args, argv, wd, files, outcome) ==
    IF ~wd.err.isNil
    THEN Fail("run_shell", Wrap("working directory validation failed: ", wd.err), files)
    ELSE IF isShellExecutable(argv[1])
    THEN Fail("run_shell", Err("shell executables are not allowed: ", "", argv[1]), files)
    ELSE IF isDangerousExecutable(argv[1])
    THEN Fail("run_shell", Err("dangerous command not allowed: ", "", argv[1]), files)
    ELSE runShellRespond(runCommand(<<"b","a","s","h">>,
                                    << <<"-","l","c">>, args.command >>, wd.path,
                                    args.timeout_seconds, outcome),
                         files, outcome)

\* runShellTool.execute from the working-directory validation on
runShellInDir(args, argv, wd, files, outcome) ==
    IF ~wd.err.isNil
    THEN Fail("run_shell", Wrap("working directory validation failed: ", wd.err), files)
    ELSE IF isShellExecutable(argv[1])
    THEN Fail("run_shell", Err("shell executables are not allowed: ", "", argv[1]), files)
    ELSE IF isDangerousExecutable(argv[1])
    THEN Fail("run_shell", Err("dangerous command not allowed: ", "", argv[1]), files)
    ELSE runShellRespond(runCommand(argv[1], Tail(argv), wd.path,
                                    args.timeout_seconds, outcome),
                         files, outcome)

\* a run_shell that goes on with the working directory as it was given when
\* its validation fails
runShellParsedAnyDir(args, parsed, files, outcome) ==
    IF ~parsed.err.isNil
    THEN Fail("run_shell", Wrap("invalid command: ", parsed.err), files)
    ELSE IF Len(parsed.args) = 0
    THEN Fail("run_shell", Err("command is required", "", <<>>), files)
    ELSE runShellInDir(args, parsed.args, [path |-> args.working_dir, err |-> NoErr],
                       files, outcome)

\* runShellTool.execute from the result of parseCommandLine on
runShellParsed(args, parsed, files, outcome) ==
    IF ~parsed.err.isNil
    THEN Fail("run_shell", Wrap("invalid command: ", parsed.err), files)
    ELSE IF Len(parsed.args) = 0
    THEN Fail("run_shell", Err("command is required", "", <<>>), files)
    ELSE runShellInDir(args, parsed.args,
                       validateWorkingDirWithAllowedDirs(args.working_dir, AllowedDirs),
                       files, outcome)

\* runShellTool.execute from the result of containsBlockedShellSyntax on
runShellScanned(args, scan, files, outcome) ==
    IF scan.blocked
    THEN Fail("run_shell", Err("shell control syntax not allowed: ", "", scan.token), files)
    ELSE runShellParsed(args, parseCommandLine(args.command), files, outcome)

\* runShellTool.execute from the decoded arguments on
runShellArgs(args, files, outcome) ==
    IF args.command = <<>>
    THEN Fail("run_shell", Err("command is required", "", <<>>), files)
    ELSE runShellScanned(args, containsBlockedShellSyntax(args.command), files, outcome)

\* runShellTool.execute; outcome is what happens to the command if it is run
runShellExecute(argText, files, outcome) ==
    IF ~argText.wellformed
    THEN Fail("run_shell", JSONSyntaxError, files)
    ELSE runShellArgs(Unmarshal(argText), files, outcome)

\* the fields the definition of each tool declares as required
readFileRequired == {"path"}

writeFileRequired == {"path", "content"}

runShellRequired == {"command"}

\* the names New registers
RegisteredTools == {"read_file", "write_file", "run_shell"}

\* ctx.Err() once the context is done
ContextCanceled == Err("context canceled", "", <<>>)

\* Registry.Execute after the cancellation check: the lookup in the registry
\* and the call of the tool's execute; invoked tells whether a tool
\* implementation was entered
Dispatch(call, files, outcome) ==
    IF call.name \notin RegisteredTools
    THEN [ret |-> Fail(call.name, Err("unknown tool: ", call.name, <<>>), files),
          invoked |-> FALSE]
    ELSE [ret |-> CASE call.name = "read_file"  -> readFileExecute(call.arguments, files)
                    [] call.name = "write_file" -> writeFileExecute(call.arguments, files)
                    [] call.name = "run_shell"  -> runShellExecute(call.arguments, files, outcome),
          invoked |-> TRUE]

\* an Execute that dispatches without looking at the context
ExecuteUnchecked(call, ctxDone, files, outcome) == Dispatch(call, files, outcome)

\* Registry.Execute; ctxDone is whether t.ctx.Ctx.Done() is closed (New never
\* leaves the context nil)
Execute(call, ctxDone, files, outcome) ==
    IF ctxDone
    THEN [ret |-> ToolReturn(marshalToolResponse(call.name, NilData, ContextCanceled),
                             files, <<>>),
          invoked |-> FALSE]
    ELSE Dispatch(call, files, outcome)

(***************************************************************************)
(* AgentLoop: configuration, messages and the completion model.            *)
(***************************************************************************)
\* config.Normalize, for the field the loop reads
Normalize(cfg) == [cfg EXCEPT !.MaxTurns = IF cfg.MaxTurns <= 0 THEN 1 ELSE cfg.MaxTurns]

\* a message that carries no tool output
NoOutput == [keys |-> {}, ok |-> FALSE, tool |-> "", data |-> NilData, error |-> NoErr]

SystemPrompt == "system prompt"

SystemMessage(prompt) ==
    [role |-> "system", text |-> prompt, input |-> <<>>, toolCalls |-> <<>>,
     toolCallID |-> 0, output |-> NoOutput]

UserMessage(input) ==
    [role |-> "user", text |-> "", input |-> input, toolCalls |-> <<>>,
     toolCallID |-> 0, output |-> NoOutput]

\* a ChatCompletionMessage of the model, and its ToParam() form in a list
AssistantMessage(text, calls) ==
    [role |-> "assistant", text |-> text, input |-> <<>>, toolCalls |-> calls,
     toolCallID |-> 0, output |-> NoOutput]

ToolMessage(output, id) ==
    [role |-> "tool", text |-> "", input |-> <<>>, toolCalls |-> <<>>,
     toolCallID |-> id, output |-> output]

\* the JSON arguments of a request: the keys in has carry the given values
ArgsOf(has, fields) ==
    [k \in DOMAIN ZeroArgs |->
        IF k = "has" THEN has
        ELSE IF k \in DOMAIN fields THEN fields[k] ELSE ZeroArgs[k]]

\* read_file {"path": "n"}
ReadNotes == [name |-> "read_file", arguments |-> ArgsOf({"path"}, [path |-> <<"n">>])]
\* read_file {"path": "/s/../e/p"}
ReadEscape ==
    [name |-> "read_file",
     arguments |-> ArgsOf({"path"}, [path |-> <<"/","s","/",".",".","/","e","/","p">>])]
\* read_file {}
ReadNoPath == [name |-> "read_file", arguments |-> ArgsOf({}, [max_bytes |-> 0])]
\* write_file {"path": "n", "content": "hi"}
WriteNotes ==
    [name |-> "write_file",
     arguments |-> ArgsOf({"path", "content"}, [path |-> <<"n">>, content |-> <<"h","i">>])]
\* write_file {"path": "m"}
WriteNoContent == [name |-> "write_file", arguments |-> ArgsOf({"path"}, [path |-> <<"m">>])]
\* run_shell {"command": "ls"}
ShellList == [name |-> "run_shell", arguments |-> ArgsOf({"command"}, [command |-> <<"l","s">>])]
\* run_shell {"command": "rm n"}
ShellRemove ==
    [name |-> "run_shell", arguments |-> ArgsOf({"command"}, [command |-> <<"r","m"," ","n">>])]
\* run_shell with arguments that are not JSON
ShellMalformed == [name |-> "run_shell", arguments |-> ArgsOf({}, [wellformed |-> FALSE])]
\* a tool that is not registered
UnknownTool == [name |-> "fly", arguments |-> ArgsOf({}, [max_bytes |-> 0])]

\* the batches of tool calls one reply of the completion model can carry
Batches ==
    { <<ReadNotes>>,
      <<WriteNotes, ReadNotes>>,
      <<WriteNoContent, WriteNotes>>,
      <<UnknownTool, ShellRemove, ShellList>>,
      <<ShellMalformed, ReadEscape, ReadNoPath>> }

\* the lines a user can type
UserInputs == { <<>>, <<" ", "\t">>, <<" ", "h", "i">> }

\* the file system the conversation starts with
InitialFiles ==
    [p \in { <<"/">>, <<"/","s">>, <<"/","e">>, <<"/","e","/","p">> } |->
        IF p = <<"/","e","/","p">>
        THEN [isDir |-> FALSE, content |-> <<"x">>]
        ELSE [isDir |-> TRUE, content |-> <<>>]]

ErrUserInputRequired == Err("user input is required", "", <<>>)
ErrMaxTurns == Err("max turns reached before assistant produced a final response", "", <<>>)
ErrEmptyChoices == Err("empty completion choices", "", <<>>)
ErrRequest == Err("completion request failed", "", <<>>)

NoOutcome == [kind |-> "none", text |-> "", err |-> NoErr]

(***************************************************************************)
(* State.                                                                  *)
(***************************************************************************)
VARIABLES
    config,          \* AgentLoop.config after Normalize
    history,         \* AgentLoop.history
    cancelled,       \* whether AgentLoop.ctx is done
    files,           \* the host file system
    pc,              \* where the current Run is: idle, loopHead, awaitingModel, executingTools
    previousLen,     \* Run's previousLen
    currentMessages, \* runIteration's currentMessages
    turn,            \* runIteration's loop counter
    toolCalls,       \* message.ToolCalls of the turn being executed
    callIdx,         \* position of appendToolResponses in toolCalls
    runs,            \* number of Run calls made
    outcome,         \* what the last Run returned, if it was the last operation
    historyBefore,   \* the history when the last Run was called
    sent,            \* the message lists the last Run sent to the model
    issued,          \* the tool-call lists of the model's replies in the last Run
    finalSeen,       \* the reply of the last Run that carried no tool call
    dispatched,      \* the calls of Registry.Execute in the last Run
    resetAt,         \* number of Run calls made before the last Reset, -1 before any
    pathCheck,       \* one call of validatePathWithAllowedDirs and of read_file
    shellCheck,      \* one call of runShellTool.execute
    proc,            \* one call of Context.runCommand and the process it starts
    fileCheck,       \* write_file and read_file calls made one after the other
    envCheck,        \* one call of sanitizedEnv
    chat             \* one call of App.runChatLoop

\* the state of the AgentLoop and of what it acts on
loopVars == <<config, history, cancelled, files, pc, previousLen,
              currentMessages, turn, toolCalls, callIdx, runs, outcome,
              historyBefore, sent, issued, finalSeen, dispatched, resetAt>>

\* the calls looked at on their own
aside == <<pathCheck, shellCheck, proc, fileCheck, envCheck, chat>>

\* the calls the later sections look at
later == <<fileCheck, envCheck, chat>>

vars == <<loopVars, aside>>

frame == <<previousLen, currentMessages, turn, toolCalls, callIdx>>
observed == <<sent, issued, finalSeen, dispatched>>

\* number of round-trips to the completion model made by the last Run
roundTrips == Len(sent)

\* number of replies of the last Run that carried tool calls
toolTurns == Len(issued)

\* no reply without tool calls has been seen
NoFinal == [seen |-> FALSE, text |-> "", roundTrips |-> 0, dispatched |-> 0]

RECURSIVE Flatten(_)
Flatten(seqs) == IF seqs = <<>> THEN <<>> ELSE Head(seqs) \o Flatten(Tail(seqs))

\* the commands the last Run started, in order
spawned == Flatten([i \in 1..Len(dispatched) |-> dispatched[i].procs])

\* no call is being looked at on its own
NoCall == [state |-> "none"]

\* the AgentLoop after New
LoopInit ==
    /\ \E n \in (-1)..MaxTurnsBound : config = Normalize([MaxTurns |-> n])
    /\ history = <<SystemMessage(SystemPrompt)>>
    /\ cancelled = FALSE
    /\ files = InitialFiles
    /\ pc = "idle"
    /\ previousLen = 0
    /\ currentMessages = <<>>
    /\ turn = 0
    /\ toolCalls = <<>>
    /\ callIdx = 0
    /\ runs = 0
    /\ outcome = NoOutcome
    /\ historyBefore = <<>>
    /\ sent = <<>>
    /\ issued = <<>>
    /\ finalSeen = NoFinal
    /\ dispatched = <<>>
    /\ resetAt = -1

Init ==
    /\ LoopInit
    /\ pathCheck = NoCall
    /\ shellCheck = NoCall
    /\ proc = NoCall
    /\ fileCheck = NoCall
    /\ envCheck = NoCall
    /\ chat = NoCall

(***************************************************************************)
(* AgentLoop.Run, runIteration, runOnce, appendToolResponses and Reset.    *)
(***************************************************************************)
\* the loop condition with an off-by-one: one turn too many
loopConditionInclusive(t, maxTurns) == t <= maxTurns

\* the condition of runIteration's for loop
loopCondition(t, maxTurns) == t < maxTurns

\* a rollback that leaves the user message of the failed Run in place
rollbackKeepsUser(h, prevLen) == SubSeq(h, 1, prevLen + 1)

\* the rollback of a failed Run truncates to nothing
rollbackToStart(h, prevLen) == SubSeq(h, 1, 0)

\* Run's rollback after runIteration failed
rollback(h, prevLen) == SubSeq(h, 1, prevLen)

\* a Run that returns the final message without recording it
appendFinalDropped(h, message) == h

\* Run's append of the final message
appendFinal(h, message) == Append(h, message)

\* the string appendToolResponses puts into the tool message: Execute's
\* output, or the literal built from the error Execute returned
toolOutput(ret) ==
    IF ret.err.isNil THEN ret.output
    ELSE [keys |-> {"ok", "error"}, ok |-> FALSE, tool |-> "", data |-> NilData,
          error |-> ret.err]

\* the position of the last assistant message of a list
lastAssistant(messages) ==
    CHOOSE a \in 1..Len(messages) :
        /\ messages[a].role = "assistant"
        /\ \A b \in (a + 1)..Len(messages) : messages[b].role # "assistant"

\* a tool message put in front of the results already appended in the turn
appendToolMessageInFront(updated, output, call) ==
    SubSeq(updated, 1, lastAssistant(updated))
        \o <<ToolMessage(output, call.id)>>
        \o SubSeq(updated, lastAssistant(updated) + 1, Len(updated))

\* appendToolResponses: one tool message per call, after the ones before it
appendToolMessage(updated, output, call) == Append(updated, ToolMessage(output, call.id))

\* a loop that stays on a call whose result is a failure, to try it again
nextCallRetrying(idx, output) == IF output.ok THEN idx + 1 ELSE idx

\* the range loop of appendToolResponses moves to the next call
nextCall(idx, output) == idx + 1

\* Run called with a line of user input
Run(userInput) ==
    /\ pc = "idle"
    /\ runs < MaxRuns
    /\ runs' = runs + 1
    /\ historyBefore' = history
    /\ sent' = <<>>
    /\ issued' = <<>>
    /\ finalSeen' = NoFinal
    /\ dispatched' = <<>>
    /\ LET input == TrimSpace(userInput) IN
       IF input = <<>>
       THEN /\ outcome' = [kind |-> "error", text |-> "", err |-> ErrUserInputRequired]
            /\ UNCHANGED <<history, pc, frame>>
       ELSE /\ previousLen' = Len(history)
            /\ history' = Append(history, UserMessage(input))
            /\ currentMessages' = Append(history, UserMessage(input))
            /\ turn' = 0
            /\ toolCalls' = <<>>
            /\ callIdx' = 0
            /\ outcome' = NoOutcome
            /\ pc' = "loopHead"
    /\ UNCHANGED <<config, cancelled, files>>
    /\ UNCHANGED <<resetAt, aside>>

\* runIteration enters a turn and runOnce sends currentMessages to the model
SendRequest ==
    /\ pc = "loopHead"
    /\ loopCondition(turn, config.MaxTurns)
    /\ sent' = Append(sent, currentMessages)
    /\ pc' = "awaitingModel"
    /\ UNCHANGED <<config, history, cancelled, files, frame, runs, outcome,
                   historyBefore, issued, finalSeen, dispatched>>
    /\ UNCHANGED <<resetAt, aside>>

\* the loop ends without a final message: runIteration returns the error and
\* Run rolls the history back
MaxTurnsReached ==
    /\ pc = "loopHead"
    /\ ~loopCondition(turn, config.MaxTurns)
    /\ history' = rollback(history, previousLen)
    /\ outcome' = [kind |-> "error", text |-> "", err |-> ErrMaxTurns]
    /\ pc' = "idle"
    /\ UNCHANGED <<config, cancelled, files, frame, runs, historyBefore, observed>>
    /\ UNCHANGED <<resetAt, aside>>

\* runOnce fails: the request returns an error (always, once the context is
\* done) or the completion has no choice
ReplyError(e) ==
    /\ pc = "awaitingModel"
    /\ cancelled => e = ErrRequest
    /\ history' = rollback(history, previousLen)
    /\ outcome' = [kind |-> "error", text |-> "", err |-> e]
    /\ pc' = "idle"
    /\ UNCHANGED <<config, cancelled, files, frame, runs, historyBefore, observed>>
    /\ UNCHANGED <<resetAt, aside>>

\* the model answers with a message that carries no tool call
ReplyFinal(text) ==
    /\ pc = "awaitingModel"
    /\ ~cancelled
    /\ history' = appendFinal(history, AssistantMessage(text, <<>>))
    /\ outcome' = [kind |-> "final", text |-> text, err |-> NoErr]
    /\ finalSeen' = [seen |-> TRUE, text |-> text, roundTrips |-> roundTrips,
                     dispatched |-> Len(dispatched)]
    /\ pc' = "idle"
    /\ UNCHANGED <<config, cancelled, files, frame, runs, historyBefore,
                   sent, issued, dispatched>>
    /\ UNCHANGED <<resetAt, aside>>

\* the model answers with tool calls; the call IDs are the model's and are
\* distinct within a Run
ReplyToolCalls(batch) ==
    /\ pc = "awaitingModel"
    /\ ~cancelled
    /\ LET calls == [i \in 1..Len(batch) |->
                        [id |-> turn * 10 + i, name |-> batch[i].name,
                         arguments |-> batch[i].arguments]]
       IN  /\ currentMessages' = Append(currentMessages, AssistantMessage("", calls))
           /\ toolCalls' = calls
    /\ callIdx' = 1
    /\ issued' = Append(issued, toolCalls')
    /\ pc' = "executingTools"
    /\ UNCHANGED <<config, history, cancelled, files, previousLen, turn, runs,
                   outcome, historyBefore, sent, finalSeen, dispatched>>
    /\ UNCHANGED <<resetAt, aside>>

\* the body of the range loop of appendToolResponses for one call, given what
\* Execute returned for it; after the last call runIteration counts the turn
\* and goes back to the head of its loop
appendToolResponse(call, r) ==
    /\ currentMessages' = appendToolMessage(currentMessages, toolOutput(r.ret), call)
    /\ files' = r.ret.files
    /\ dispatched' = Append(dispatched,
                            [call |-> call, ctxDone |-> cancelled, invoked |-> r.invoked,
                             returned |-> [output |-> r.ret.output, err |-> r.ret.err],
                             changed |-> r.ret.files # files, procs |-> r.ret.procs])
    /\ callIdx' = nextCall(callIdx, toolOutput(r.ret))
    /\ IF callIdx' > Len(toolCalls)
       THEN turn' = turn + 1 /\ pc' = "loopHead"
       ELSE UNCHANGED <<turn, pc>>

\* one iteration of appendToolResponses: the registry executes the next call
ExecuteNextTool(procOutcome) ==
    /\ pc = "executingTools"
    /\ appendToolResponse(toolCalls[callIdx],
                          Execute(toolCalls[callIdx], cancelled, files, procOutcome))
    /\ UNCHANGED <<config, history, cancelled, previousLen, toolCalls, runs,
                   outcome, historyBefore, sent, issued, finalSeen>>
    /\ UNCHANGED <<resetAt, aside>>

\* a Reset that leaves the history as it is
resetHistoryKeeping(h, prompt) == h

\* the history Reset installs: the system message of the AgentLoop's prompt
resetHistory(h, prompt) == <<SystemMessage(prompt)>>

\* AgentLoop.Reset, which the REPL calls between two Runs; what was recorded
\* about the last Run is dropped
Reset ==
    /\ pc = "idle"
    /\ history' = resetHistory(history, SystemPrompt)
    /\ outcome' = NoOutcome
    /\ historyBefore' = <<>>
    /\ sent' = <<>>
    /\ issued' = <<>>
    /\ finalSeen' = NoFinal
    /\ dispatched' = <<>>
    /\ UNCHANGED <<config, cancelled, files, pc, frame, runs>>
    /\ resetAt' = runs
    /\ UNCHANGED aside

\* the caller cancels the context given to New
Cancel ==
    /\ ~cancelled
    /\ cancelled' = TRUE
    /\ UNCHANGED <<config, history, files, pc, frame, runs, outcome,
                   historyBefore, observed>>
    /\ UNCHANGED <<resetAt, aside>>

FinalTexts == {"done"}

Next ==
    \/ \E userInput \in UserInputs : Run(userInput)
    \/ SendRequest
    \/ MaxTurnsReached
    \/ \E e \in {ErrRequest, ErrEmptyChoices} : ReplyError(e)
    \/ \E text \in FinalTexts : ReplyFinal(text)
    \/ \E batch \in Batches : ReplyToolCalls(batch)
    \/ \E procOutcome \in ProcOutcomes : ExecuteNextTool(procOutcome)
    \/ Reset
    \/ Cancel

Spec == Init /\ [][Next]_vars

(***************************************************************************)
(* The turn budget, the rollback and the final message.                    *)
(***************************************************************************)
\* the result Run returns when the turn budget is used up
BudgetExhausted == [kind |-> "error", text |-> "", err |-> ErrMaxTurns]

\* C1: a Run with max_turns = N (N >= 1) never makes more than N round-trips
\* to the model; a Run that has returned after round-trips which the model
\* answered with tool calls every time has made exactly N of them, and what
\* it returned is the budget-exhausted error.
C1_TurnBudget ==
    /\ config.MaxTurns >= 1
    /\ roundTrips <= config.MaxTurns
    /\ (pc = "idle" /\ roundTrips >= 1 /\ toolTurns = roundTrips)
          => (roundTrips = config.MaxTurns /\ outcome = BudgetExhausted)

\* a Run with N = MaxTurnsBound has returned the budget error after N
\* round-trips that were all answered with tool calls
C1_Witness ==
    /\ pc = "idle"
    /\ config.MaxTurns = MaxTurnsBound
    /\ toolTurns = MaxTurnsBound
    /\ roundTrips = MaxTurnsBound
    /\ outcome = BudgetExhausted

\* the errors that make runIteration fail
OrchestrationErrors == {ErrRequest, ErrEmptyChoices, ErrMaxTurns}

\* C2: when a Run that reached the model has returned without a final message
\* (the request failed, the completion had no choice, or the budget ran out),
\* the history is the history from before the call - no user, assistant,
\* tool-call or tool-result message of the failed Run remains - and the Run
\* has returned that orchestration error to its caller.
C2_FailedRunRestoresHistory ==
    (pc = "idle" /\ roundTrips >= 1 /\ ~finalSeen.seen)
        => /\ history = historyBefore
           /\ outcome.kind = "error"
           /\ outcome.err \in OrchestrationErrors

\* a second Run has failed on an empty completion after a turn of tool calls,
\* and the history holds the messages of the first Run again
C2_Witness ==
    /\ pc = "idle"
    /\ outcome.kind = "error"
    /\ outcome.err = ErrEmptyChoices
    /\ toolTurns >= 1
    /\ Len(historyBefore) = 3
    /\ history = historyBefore

\* C3: once the model has answered a round-trip of a Run with a message that
\* carries no tool call, the Run is over: no tool has been executed and no
\* round-trip made since, the message is the last entry of the history, and
\* its text is what Run returned.
C3_FinalMessageStopsLoop ==
    finalSeen.seen
        => /\ pc = "idle"
           /\ roundTrips = finalSeen.roundTrips
           /\ Len(dispatched) = finalSeen.dispatched
           /\ Len(history) = Len(historyBefore) + 2
           /\ history[Len(history)] = AssistantMessage(finalSeen.text, <<>>)
           /\ outcome = [kind |-> "final", text |-> finalSeen.text, err |-> NoErr]

\* the model has given its final message in the second turn of a Run, after a
\* turn of tool calls
C3_Witness ==
    /\ finalSeen.seen
    /\ toolTurns >= 1
    /\ roundTrips = toolTurns + 1
    /\ history[Len(history)].role = "assistant"

(***************************************************************************)
(* The tool calls of a turn.                                               *)
(***************************************************************************)
\* the tool calls the model has requested in the last Run, in order
issuedCalls == Flatten(issued)

\* the positions in currentMessages of the tool-result messages for a call ID
resultsFor(id) ==
    { m \in 1..Len(currentMessages) :
        currentMessages[m].role = "tool" /\ currentMessages[m].toolCallID = id }

\* the envelope the loop hands on for a call of Registry.Execute
handedOn(d) == toolOutput(d.returned)

\* C4: the list sent on a round-trip after a turn of tool calls c1..ck is the
\* list sent before, then the assistant message with c1..ck, then exactly k
\* tool-result messages, the i-th with the call ID of ci; the registry is
\* given the calls one after the other in the order the model issued them.
C4_NextRequestExtendsPrevious ==
    /\ \A j \in 2..Len(sent) :
          /\ Len(sent[j]) = Len(sent[j - 1]) + 1 + Len(issued[j - 1])
          /\ SubSeq(sent[j], 1, Len(sent[j - 1])) = sent[j - 1]
          /\ sent[j][Len(sent[j - 1]) + 1] = AssistantMessage("", issued[j - 1])
          /\ \A i \in 1..Len(issued[j - 1]) :
                /\ sent[j][Len(sent[j - 1]) + 1 + i].role = "tool"
                /\ sent[j][Len(sent[j - 1]) + 1 + i].toolCallID = issued[j - 1][i].id
    /\ Len(dispatched) <= Len(issuedCalls)
    /\ \A i \in 1..Len(dispatched) : dispatched[i].call = issuedCalls[i]

\* a second request has been sent after a turn of three tool calls
C4_Witness ==
    /\ Len(sent) = 2
    /\ Len(issued[1]) = 3
    /\ Len(sent[2]) = Len(sent[1]) + 4

\* C6: no call is given to the registry twice, every call of a finished turn
\* has been given to it, and each call has exactly one tool-result message,
\* which says ok=false when the call failed.
C6_NoRetry ==
    /\ \A i, j \in 1..Len(dispatched) :
          dispatched[i].call.id = dispatched[j].call.id => i = j
    /\ pc # "executingTools" => Len(dispatched) = Len(issuedCalls)
    /\ \A i \in 1..Len(dispatched) :
          /\ Cardinality(resultsFor(dispatched[i].call.id)) = 1
          /\ \A m \in resultsFor(dispatched[i].call.id) :
                currentMessages[m].output.ok = handedOn(dispatched[i]).ok

\* a turn of three calls is finished, the first of them failed and the last
\* succeeded
C6_Witness ==
    /\ pc = "loopHead"
    /\ Len(dispatched) = 3
    /\ ~handedOn(dispatched[1]).ok
    /\ handedOn(dispatched[3]).ok
    /\ \A m \in resultsFor(dispatched[1].call.id) : ~currentMessages[m].output.ok

\* what Execute returns for a call when the context is done
Cancellation(call) ==
    [keys |-> {"ok", "tool", "error"}, ok |-> FALSE, tool |-> call.name,
     data |-> NilData, error |-> ContextCanceled]

\* C7: a call given to Execute when the context is already cancelled returns
\* the ok=false envelope with the cancellation error, no tool implementation
\* is entered, no file is changed and no process started; every later call of
\* the turn is short-circuited the same way, none is skipped, and each has
\* its own tool-result message with that envelope.
C7_CancelledCallsShortCircuit ==
    /\ \A i \in 1..Len(dispatched) :
          dispatched[i].ctxDone =>
             /\ ~dispatched[i].invoked
             /\ ~dispatched[i].changed
             /\ dispatched[i].procs = <<>>
             /\ dispatched[i].returned.err.isNil
             /\ dispatched[i].returned.output = Cancellation(dispatched[i].call)
             /\ \A j \in i..Len(dispatched) : dispatched[j].ctxDone
             /\ Cardinality(resultsFor(dispatched[i].call.id)) = 1
             /\ \A m \in resultsFor(dispatched[i].call.id) :
                   currentMessages[m].output = Cancellation(dispatched[i].call)
    /\ (pc = "loopHead" /\ cancelled) => Len(dispatched) = Len(issuedCalls)

\* the context was cancelled before the second of three calls: the first was
\* dispatched, the second and the third (a command that passes every check
\* of run_shell) were short-circuited, and the turn is finished
C7_Witness ==
    /\ pc = "loopHead"
    /\ Len(dispatched) = 3
    /\ ~dispatched[1].ctxDone
    /\ dispatched[2].ctxDone
    /\ dispatched[3].ctxDone
    /\ dispatched[3].call.name = ShellList.name
    /\ dispatched[3].call.arguments = ShellList.arguments
    /\ Cardinality(resultsFor(dispatched[3].call.id)) = 1

(***************************************************************************)
(* What the loop keeps, and the envelope of a tool result.                 *)
(***************************************************************************)
\* C5: after a Run that returned a final message, the history of the loop is
\* the list of the Run's last request - the history before, the user
\* message, and every assistant tool-call message with its tool-result
\* messages in order - followed by the final assistant message.
C5_HistoryKeepsToolMessages ==
    (pc = "idle" /\ outcome.kind = "final")
        => history = Append(sent[Len(sent)], AssistantMessage(outcome.text, <<>>))

\* the required fields of a registered tool
Required(name) ==
    CASE name = "read_file"  -> readFileRequired
      [] name = "write_file" -> writeFileRequired
      [] name = "run_shell"  -> runShellRequired

\* a call whose arguments are JSON but leave out a required field
MissingRequired(call) ==
    /\ call.name \in RegisteredTools
    /\ call.arguments.wellformed
    /\ ~(Required(call.name) \subseteq call.arguments.has)

\* a file call whose path the path guard rejects
PathRejected(call) ==
    /\ call.name \in {"read_file", "write_file"}
    /\ call.arguments.wellformed
    /\ Unmarshal(call.arguments).path # <<>>
    /\ ~validatePathWithAllowedDirs(Unmarshal(call.arguments).path, AllowedDirs).err.isNil

\* a command the command guard rejects
CommandRejected(call) ==
    /\ call.name = "run_shell"
    /\ call.arguments.wellformed
    /\ Unmarshal(call.arguments).command # <<>>
    /\ \/ containsBlockedShellSyntax(Unmarshal(call.arguments).command).blocked
       \/ ~parseCommandLine(Unmarshal(call.arguments).command).err.isNil
       \/ /\ Len(parseCommandLine(Unmarshal(call.arguments).command).args) > 0
          /\ \/ isShellExecutable(parseCommandLine(Unmarshal(call.arguments).command).args[1])
             \/ isDangerousExecutable(parseCommandLine(Unmarshal(call.arguments).command).args[1])

\* the outcomes of a tool call the claim lists
FailedCall(d) ==
    \/ d.call.name \notin RegisteredTools
    \/ d.call.name \in RegisteredTools /\ ~d.call.arguments.wellformed
    \/ MissingRequired(d.call)
    \/ PathRejected(d.call)
    \/ CommandRejected(d.call)
    \/ ~d.returned.err.isNil

\* C8: a call to an unknown tool, with malformed arguments, without a
\* required field, with a path or a command the guards reject, or for which
\* the tool returned an error has exactly one tool-result message, it says
\* ok=false (for an unknown tool that was looked up, with an error that names
\* the tool), and the turn goes on: every call of a finished turn has been
\* dispatched.
C8_FailuresBecomeResults ==
    /\ \A i \in 1..Len(dispatched) :
          FailedCall(dispatched[i]) =>
             /\ Cardinality(resultsFor(dispatched[i].call.id)) = 1
             /\ \A m \in resultsFor(dispatched[i].call.id) :
                   /\ ~currentMessages[m].output.ok
                   /\ (dispatched[i].call.name \notin RegisteredTools
                         /\ ~dispatched[i].ctxDone)
                         => currentMessages[m].output.error.name = dispatched[i].call.name
    /\ pc # "executingTools" => Len(dispatched) = Len(issuedCalls)

\* the three rules of the envelope
WellFormed(envelope) ==
    /\ "ok" \in envelope.keys
    /\ envelope.ok <=> "error" \notin envelope.keys
    /\ ~envelope.ok <=> ("error" \in envelope.keys /\ ~ErrorStringEmpty(envelope.error))
    /\ "data" \in envelope.keys => envelope.ok

\* C9: every string a call of the registry returned, and every string in a
\* tool-result message, is an envelope in which ok is true exactly when there
\* is no error field, the error field is there and non-empty exactly when ok
\* is false, and data is there only when ok is true.
C9_EnvelopeWellFormed ==
    /\ \A i \in 1..Len(dispatched) :
          dispatched[i].returned.err.isNil /\ WellFormed(dispatched[i].returned.output)
    /\ \A m \in 1..Len(currentMessages) :
          currentMessages[m].role = "tool" => WellFormed(currentMessages[m].output)

\* whether a call of the given kind is among those dispatched
Returned(name, ok, ctxDone) ==
    \E i \in 1..Len(dispatched) :
        /\ dispatched[i].call.name = name
        /\ dispatched[i].returned.output.ok = ok
        /\ dispatched[i].ctxDone = ctxDone

\* one Run has got an envelope from write_file and read_file (ok), from a
\* rejected run_shell and an unknown tool (not ok), and for a cancelled call
C9_Witness ==
    /\ Returned("write_file", TRUE, FALSE)
    /\ Returned("read_file", TRUE, FALSE)
    /\ Returned("fly", FALSE, FALSE)
    /\ Returned("run_shell", FALSE, FALSE)
    /\ Returned("run_shell", FALSE, TRUE)

\* the ways a started command ends other than by exiting with status 0
FailedRuns == {"exitNonZero", "killed", "deadline"}

\* C10: a run_shell call that passed validation, so that its command was
\* started, and whose process exited with a non-zero status or was stopped at
\* the deadline, returns ok=true with the CommandResult as data and no error
\* field; the exit code is not 0 and the CommandResult carries the error
\* text.
C10_FailedCommandIsOk ==
    \A i \in 1..Len(dispatched) :
        (dispatched[i].procs # <<>> /\ dispatched[i].procs[1].outcome \in FailedRuns)
            => /\ dispatched[i].returned.err.isNil
               /\ dispatched[i].returned.output.ok
               /\ dispatched[i].returned.output.keys = {"ok", "tool", "data"}
               /\ dispatched[i].returned.output.data.kind = "commandResult"
               /\ dispatched[i].returned.output.data.ExitCode # 0
               /\ ~ErrorStringEmpty(dispatched[i].returned.output.data.Error)
               /\ \A m \in resultsFor(dispatched[i].call.id) : currentMessages[m].output.ok

\* a command was stopped at its deadline and the call returned ok=true with
\* exit code -1
C10_Witness ==
    \E i \in 1..Len(dispatched) :
        /\ dispatched[i].procs # <<>>
        /\ dispatched[i].procs[1].outcome = "deadline"
        /\ dispatched[i].returned.output.ok
        /\ dispatched[i].returned.output.data.ExitCode = -1

(***************************************************************************)
(* PathGuard on its own: one path is validated against one list of roots   *)
(* and then read by read_file.                                             *)
(***************************************************************************)
MaxPathLen == 5

\* the paths a caller can give: every string of at most MaxPathLen
\* characters over / . s e, and three longer ones (an escape through the root,
\* one that goes up twice, dots inside names)
Paths ==
    UNION { [1..k -> {"/", ".", "s", "e"}] : k \in 0..MaxPathLen }
    \cup { <<"/","s","/",".",".","/","e","/","p">>,
           <<"/","e","/","p">> \o <<"/",".",".","/",".",".","/","s">>,
           <<"s",".",".","e","/","e",".",".">> }

\* the lists of allowed directories a session can be configured with: none,
\* the working directory, two directories, a blank entry
RootLists ==
    { <<>>,
      <<Cwd>>,
      << <<"/","s","/","e">>, <<"/","e">> >>,
      << <<" ">> >> }

PathInit ==
    /\ LoopInit
    /\ fileCheck = NoCall
    /\ envCheck = NoCall
    /\ chat = NoCall
    /\ config.MaxTurns = 1
    /\ shellCheck = NoCall
    /\ proc = NoCall
    /\ \E path \in Paths, allowedDirs \in RootLists :
          pathCheck = [state |-> "given", path |-> path, allowedDirs |-> allowedDirs,
                       validated |-> [path |-> <<>>, err |-> NoErr],
                       read |-> NoOutput]

\* the path guard is applied to the path
ValidatePath ==
    /\ pathCheck.state = "given"
    /\ pathCheck' = [pathCheck EXCEPT
                        !.state = "validated",
                        !.validated = validatePathWithAllowedDirs(pathCheck.path,
                                                                  pathCheck.allowedDirs)]
    /\ UNCHANGED <<loopVars, shellCheck, proc, later>>

\* read_file is called with the path; the tools hold AllowedDirs
ReadPath ==
    /\ pathCheck.state = "validated"
    /\ pathCheck.allowedDirs = AllowedDirs
    /\ pathCheck' = [pathCheck EXCEPT
                        !.state = "read",
                        !.read = readFileExecute(ArgsOf({"path"}, [path |-> pathCheck.path]),
                                                 files).output]
    /\ UNCHANGED <<loopVars, shellCheck, proc, later>>

PathNext == ValidatePath \/ ReadPath

PathSpec == PathInit /\ [][PathNext]_vars

\* the path guard has answered
PathDone == pathCheck.state \in {"validated", "read"}

\* the string has a segment "..": the two dots stand between separators or
\* the ends of the string
HasDotDotSegment(str) ==
    \E i \in 1..(Len(str) - 1) :
        /\ str[i] = "." /\ str[i + 1] = "."
        /\ (i = 1 \/ str[i - 1] = Sep)
        /\ (i + 1 = Len(str) \/ str[i + 2] = Sep)

\* C13: a non-empty path whose cleaned form has a ".." segment is rejected
\* by validatePathWithAllowedDirs with the traversal error and no path,
\* whatever the list of allowed roots, the empty list included.
C13_TraversalRejected ==
    (PathDone /\ pathCheck.path # <<>> /\ HasDotDotSegment(Clean(pathCheck.path)))
        => /\ ~pathCheck.validated.err.isNil
           /\ pathCheck.validated.err.text = "path traversal not allowed: "
           /\ pathCheck.validated.path = <<>>

\* a path with a ".." segment left after cleaning was rejected although no
\* root is configured
C13_Witness ==
    /\ PathDone
    /\ pathCheck.path = <<".",".","/","e">>
    /\ pathCheck.allowedDirs = <<>>
    /\ ~pathCheck.validated.err.isNil

\* the allowed roots as the guard holds them: absolute, cleaned, deduplicated
Roots == { normalizeAllowedDirs(pathCheck.allowedDirs)[i] :
             i \in 1..Len(normalizeAllowedDirs(pathCheck.allowedDirs)) }

Segments(p) == NonEmptyParts(Split(p, Sep))

\* abs equals root or lies below it, segment by segment
Below(abs, root) == HasPrefix(Segments(abs), Segments(root))

InsideSomeRoot(p) == \E root \in Roots : Below(Abs(p), root)

Accepted(p) == Roots = {} \/ InsideSomeRoot(p)

\* C15: for a non-empty path with no ".." segment after cleaning, validation
\* returns the absolute path exactly when there are no allowed roots or the
\* absolute path equals or lies below one of them; otherwise it fails with
\* the outside-allowed-directories error, and read_file on such a path
\* returns ok=false.
C15_RootContainment ==
    (PathDone /\ pathCheck.path # <<>> /\ ~HasDotDotSegment(Clean(pathCheck.path)))
        => /\ pathCheck.validated.err.isNil <=> Accepted(pathCheck.path)
           /\ pathCheck.validated.err.isNil
                => pathCheck.validated.path = Abs(pathCheck.path)
           /\ ~pathCheck.validated.err.isNil
                => /\ pathCheck.validated.err.text = "path outside allowed directories: "
                   /\ pathCheck.validated.path = <<>>
                   /\ pathCheck.state = "read" => ~pathCheck.read.ok

C15_Witness ==
    /\ pathCheck.state = "read"
    /\ pathCheck.path = <<"/", "s", "/", ".", ".", "/", "e", "/", "p">>
    /\ pathCheck.allowedDirs = <<Cwd>>
    /\ pathCheck.validated.err.text = "path outside allowed directories: "
    /\ ~pathCheck.read.ok

(***************************************************************************)
(* run_shell looked at on its own: one call of runShellTool.execute on a   *)
(* command line built from an executable name, a directory prefix, a       *)
(* spelling and what follows the name.                                     *)
(***************************************************************************)
ToUpper(s) ==
    [i \in 1..Len(s) |->
        IF \E j \in 1..26 : LowerLetters[j] = s[i]
        THEN UpperLetters[CHOOSE j \in 1..26 : LowerLetters[j] = s[i]]
        ELSE s[i]]

\* the executables a command line can name: those of the two lists and some
\* that are on neither, each in lower and in upper case
Executables ==
    UNION { {n, ToUpper(n)} :
              n \in dangerousCommands \cup shellExecutables
                    \cup { <<"l","s">>, <<"m","k","f","s",".","f","2","f","s">>,
                           <<"m","k","f","s",".","f","a","t">>,
                           <<"k","i","l","l","p","r","o","c">>,
                           <<"s","k","i","l","l">> } }

\* what follows the executable: nothing, an argument, an open quote, a
\* trailing backslash, each shell operator or expansion
Rests ==
    { <<>>, <<" ","x">>, <<" ","'","x">>, <<" ","\\">> }
    \cup { <<" ">> \o t \o <<" ","x">> :
             t \in { <<"&","&">>, <<"|","|">>, <<";">>, <<"|">>, <<">">>, <<"<">>,
                     <<"$","(">>, <<Backtick>>, <<"\n">>, <<"\r">>, <<"&">> } }

\* the command lines: a directory prefix, an executable and a rest, and some
\* with quotes, escapes or nothing at all
Commands ==
    { pre \o exe \o rest : pre \in { <<>>, <<"/","b","/">>, <<".","/">> },
                           exe \in Executables, rest \in Rests }
    \cup { <<>>, <<" ">>, <<"'","r","m","'"," ","x">>, <<"\"","R","M"," ","\"">>,
           <<"\\","r","m">>, <<"'","/","b","/","s","h","'">>, <<"\"","\"">>,
           <<"l","s"," ","r","m">>, <<"e","c","h","o"," ","a","&","&","b">> }

\* working_dir: left out, inside the allowed root, outside it, escaping it
WorkingDirs == { <<>>, <<"/","s">>, <<"/","e">>, <<".",".">> }

ShellInit ==
    /\ LoopInit
    /\ fileCheck = NoCall
    /\ envCheck = NoCall
    /\ chat = NoCall
    /\ config.MaxTurns = 1
    /\ pathCheck = NoCall
    /\ proc = NoCall
    /\ \E command \in Commands, dir \in WorkingDirs :
         shellCheck = [state |-> "given", command |-> command, working_dir |-> dir,
                       ret |-> ToolReturn([output |-> NoOutput, err |-> NoErr],
                                          InitialFiles, <<>>)]

\* one call of run_shell; procOutcome is what the command does if it is run
ExecuteShell(procOutcome) ==
    /\ shellCheck.state = "given"
    /\ shellCheck' =
         [shellCheck EXCEPT
            !.state = "returned",
            !.ret = runShellExecute(
                        ArgsOf({"command", "working_dir"},
                               [command |-> shellCheck.command,
                                working_dir |-> shellCheck.working_dir]),
                        files, procOutcome)]
    /\ UNCHANGED <<loopVars, pathCheck, proc, later>>

ShellNext == \E procOutcome \in ProcOutcomes : ExecuteShell(procOutcome)

ShellSpec == ShellInit /\ [][ShellNext]_vars

ShellDone == shellCheck.state = "returned"

\* the tokens of the command, when it parses
Parsed == parseCommandLine(shellCheck.command)

HasFirstToken == Parsed.err.isNil /\ Len(Parsed.args) > 0

FirstToken == Parsed.args[1]

\* the name of an executable without its directory prefix, in lower case
BaseNameOf(token) == ToLower(LastOf(Split(token, Sep)))

\* ok=false and no process
Rejected == ~shellCheck.ret.output.ok /\ shellCheck.ret.procs = <<>>

ClaimedTokens ==
    { <<"&","&">>, <<"|","|">>, <<";">>, <<"|">>, <<">">>, <<"<">>,
      <<"$","(">>, <<Backtick>>, <<"\n">> }

SyntaxFree ==
    \A i \in 1..Len(blockedShellSyntax) : ~Contains(shellCheck.command, blockedShellSyntax[i])

DirValid == validateWorkingDirWithAllowedDirs(shellCheck.working_dir, AllowedDirs).err.isNil

DangerousError ==
    /\ shellCheck.ret.output.error.text = "dangerous command not allowed: "
    /\ shellCheck.ret.output.error.arg = FirstToken

C17_ShellSyntaxRejected ==
    (ShellDone /\ \E t \in ClaimedTokens : Contains(shellCheck.command, t))
        => /\ Rejected
           /\ shellCheck.ret.output.error.text = "shell control syntax not allowed: "
           /\ shellCheck.ret.output.error.arg \in ClaimedTokens
           /\ Contains(shellCheck.command, shellCheck.ret.output.error.arg)

C17_Witness ==
    /\ ShellDone
    /\ shellCheck.command = <<"l","s"," ","$","("," ","x">>
    /\ shellCheck.working_dir = <<>>
    /\ Rejected
    /\ shellCheck.ret.output.error.arg = <<"$","(">>

\* C18: a command whose first token has the base name of a shell, in any
\* case and with or without a directory prefix, returns ok=false and no
\* process is started.
C18_ShellInterpreterRejected ==
    (ShellDone /\ HasFirstToken /\ BaseNameOf(FirstToken) \in shellExecutables)
        => Rejected

C18_Witness ==
    /\ ShellDone
    /\ shellCheck.command = <<"/","b","/","b","a","s","h"," ","x">>
    /\ shellCheck.working_dir = <<>>
    /\ Rejected
    /\ shellCheck.ret.output.error.text = "shell executables are not allowed: "

\* C19: a command whose first token has a base name starting with mkfs or
\* with kill is rejected by the denylist rule.
C19_PatternsRejected ==
    (/\ ShellDone
     /\ HasFirstToken
     /\ \/ HasPrefix(BaseNameOf(FirstToken), <<"m","k","f","s">>)
        \/ HasPrefix(BaseNameOf(FirstToken), <<"k","i","l","l">>))
        => Rejected

\* every check run_shell makes before it starts the command has passed
AllPassed ==
    /\ shellCheck.command # <<>>
    /\ SyntaxFree
    /\ HasFirstToken
    /\ DirValid
    /\ ~isShellExecutable(FirstToken)
    /\ ~isDangerousExecutable(FirstToken)

\* C20: run_shell starts a process only when the command is non-empty, holds
\* no blocked shell syntax, parses into a non-empty argv, has a valid working
\* directory and passes the shell-interpreter and denylist rules; when one of
\* them fails the call returns ok=false and no process has been started.
C20_SpawnOnlyAfterChecks ==
    ShellDone
        => /\ shellCheck.ret.procs # <<>> => AllPassed
           /\ ~AllPassed => Rejected
           /\ Len(shellCheck.ret.procs) <= 1

C20_Witness ==
    /\ ShellDone
    /\ shellCheck.command = <<"l","s"," ","x">>
    /\ shellCheck.working_dir = <<"/","s">>
    /\ Len(shellCheck.ret.procs) = 1
    /\ shellCheck.ret.procs[1].command = <<"l","s">>
    /\ shellCheck.ret.output.ok

(***************************************************************************)
(* runCommand looked at on its own, with a clock in seconds: the command   *)
(* is started under a deadline, runs for as long as it takes, and cmd.Run  *)
(* returns when it has exited or the deadline has killed it.  The          *)
(* conversation's context can be cancelled at any moment.                  *)
(***************************************************************************)
MaxTimeout == 2
MaxClock == 63

\* the timeout is the one the caller gives; the command can or cannot be
\* started, exits after some seconds with a status or never exits
RunnerInit ==
    /\ LoopInit
    /\ fileCheck = NoCall
    /\ envCheck = NoCall
    /\ chat = NoCall
    /\ config.MaxTurns = 1
    /\ pathCheck = NoCall
    /\ shellCheck = NoCall
    /\ \E timeout \in -1..MaxTimeout,
          behaviour \in [starts : BOOLEAN, exits : BOOLEAN,
                         after : {0, 1, 2, 60, 61}, status : {0, 1, 3}] :
         proc = [state |-> "given", timeout |-> timeout, behaviour |-> behaviour,
                 clock |-> 0, ctxCancelled |-> FALSE, deadline |-> 0,
                 startedAt |-> 0, stoppedAt |-> 0,
                 result |-> [ExitCode |-> 0, Error |-> NoErr]]

\* the error of cmd.Run(): the command could not be started ("failed"), was
\* killed by the context ("killed"), or exited by itself with a status
\* ("exited"; late says the deadline had passed when it was collected)
WaitError(how, status, late) ==
    IF how = "failed"
    THEN [err |-> Err("executable file not found in $PATH", "", <<>>),
          isExitError |-> FALSE, code |-> 0]
    ELSE IF how = "killed"
    THEN [err |-> Err("signal: killed", "", <<>>), isExitError |-> TRUE, code |-> -1]
    ELSE IF status # 0
    THEN [err |-> Err("exit status", "", <<>>), isExitError |-> TRUE, code |-> status]
    ELSE IF late
    THEN [err |-> Err("context deadline exceeded", "", <<>>), isExitError |-> FALSE, code |-> 0]
    ELSE [err |-> NoErr, isExitError |-> FALSE, code |-> 0]

\* the commandResult runCommand builds from the error of cmd.Run()
resultOf(run) == [ExitCode |-> exitCodeOf(run), Error |-> run.err]

\* an execution context derived from the conversation's context
execCtxDoneWithParent(p) == p.ctxCancelled \/ p.clock >= p.startedAt + p.deadline

\* execCtx is done: context.WithTimeout(context.Background(), timeout)
execCtxDone(p) == p.clock >= p.startedAt + p.deadline

\* runCommand up to cmd.Run() starting the command
StartCommand ==
    /\ proc.state = "given"
    /\ proc.clock + deadlineOf(proc.timeout) < MaxClock
    /\ proc' = IF proc.behaviour.starts
               THEN [proc EXCEPT !.state = "running", !.startedAt = proc.clock,
                                 !.deadline = deadlineOf(proc.timeout)]
               ELSE [proc EXCEPT !.state = "failed", !.startedAt = proc.clock,
                                 !.stoppedAt = proc.clock,
                                 !.deadline = deadlineOf(proc.timeout),
                                 !.result = resultOf(WaitError("failed", 0, FALSE))]
    /\ UNCHANGED <<loopVars, pathCheck, shellCheck, later>>

\* a second passes; the context's timer fires without delay, so no time
\* passes while a kill is due
Tick ==
    /\ proc.state \in {"given", "running"}
    /\ proc.clock < MaxClock
    /\ proc.state = "running" => ~execCtxDone(proc)
    /\ proc.state = "running" /\ proc.behaviour.exits
         => proc.clock < proc.startedAt + proc.behaviour.after
    /\ proc' = [proc EXCEPT !.clock = proc.clock + 1]
    /\ UNCHANGED <<loopVars, pathCheck, shellCheck, later>>

\* the command exits by itself and cmd.Run() returns
Exit ==
    /\ proc.state = "running"
    /\ proc.behaviour.exits
    /\ proc.clock = proc.startedAt + proc.behaviour.after
    /\ proc' = [proc EXCEPT !.state = "exited", !.stoppedAt = proc.clock,
                            !.result = resultOf(WaitError("exited", proc.behaviour.status,
                                                          execCtxDone(proc)))]
    /\ UNCHANGED <<loopVars, pathCheck, shellCheck, later>>

\* the deadline passes: exec.CommandContext kills the command and cmd.Run()
\* returns
DeadlineKill ==
    /\ proc.state = "running"
    /\ execCtxDone(proc)
    /\ proc' = [proc EXCEPT !.state = "killed", !.stoppedAt = proc.clock,
                            !.result = resultOf(WaitError("killed", 0, FALSE))]
    /\ UNCHANGED <<loopVars, pathCheck, shellCheck, later>>

\* the conversation's context is cancelled
CancelConversation ==
    /\ ~proc.ctxCancelled
    /\ proc.state \in {"given", "running"}
    /\ proc' = [proc EXCEPT !.ctxCancelled = TRUE]
    /\ UNCHANGED <<loopVars, pathCheck, shellCheck, later>>

RunnerNext == StartCommand \/ Tick \/ Exit \/ DeadlineKill \/ CancelConversation

RunnerSpec ==
    /\ RunnerInit
    /\ [][RunnerNext]_vars
    /\ WF_vars(Tick)
    /\ WF_vars(Exit)
    /\ WF_vars(DeadlineKill)

Running == proc.state = "running"

Started == proc.state \in {"running", "exited", "killed", "failed"}

\* C11: the deadline is 60 seconds when the timeout given is zero or
\* negative and the timeout otherwise; a command the deadline has killed is
\* reported with exit code -1 and a non-empty error, and a command that exits
\* by itself with a non-zero status is reported with that status.
C11_DeadlineAndExitCodes ==
    /\ Started => proc.deadline = (IF proc.timeout <= 0 THEN 60 ELSE proc.timeout)
    /\ proc.state = "killed"
         => /\ proc.stoppedAt = proc.startedAt + proc.deadline
            /\ proc.result.ExitCode = -1
            /\ ~ErrorStringEmpty(proc.result.Error)
    /\ (proc.state = "exited" /\ proc.behaviour.status # 0)
         => proc.result.ExitCode = proc.behaviour.status

C11_Witness ==
    /\ proc.state = "killed"
    /\ proc.timeout = 0
    /\ proc.stoppedAt - proc.startedAt = 60
    /\ proc.result.ExitCode = -1

\* C12: a command that is running has not outlived its own timeout, whether
\* or not the conversation has been cancelled; it is killed exactly when the
\* time computed from the timeout argument has passed since its start, and
\* never because of the cancellation; and a running command always stops.
C12_TimeoutBoundsSubprocess ==
    /\ [](Running => proc.clock <= proc.startedAt + deadlineOf(proc.timeout))
    /\ [](proc.state = "killed"
            => proc.stoppedAt = proc.startedAt + deadlineOf(proc.timeout))
    /\ [](proc.state = "exited"
            => proc.stoppedAt = proc.startedAt + proc.behaviour.after)
    /\ (Running ~> ~Running)

C12_Witness ==
    /\ proc.state = "killed"
    /\ proc.ctxCancelled
    /\ proc.timeout = 2
    /\ proc.startedAt = 1
    /\ proc.stoppedAt = 3

(***************************************************************************)
(* parseCommandLine looked at on its own, and run_shell on the same        *)
(* command lines: every string of at most MaxCmdLen characters over a      *)
(* letter, the two separators, the two quotes and the backslash.           *)
(***************************************************************************)
MaxCmdLen == 4

ParseInit ==
    /\ LoopInit
    /\ fileCheck = NoCall
    /\ envCheck = NoCall
    /\ chat = NoCall
    /\ config.MaxTurns = 1
    /\ pathCheck = NoCall
    /\ proc = NoCall
    /\ \E command \in UNION { [1..k -> {"a", " ", "\t", "'", "\"", "\\"}] : k \in 0..MaxCmdLen }
                      \cup { <<"a","\\"," ","a"," ","'","a"," ","\"","'">>,
                             <<"a"," ","\"","a","\\","\"","'","\""," ","'","'">> } :
         shellCheck = [state |-> "given", command |-> command, working_dir |-> <<>>,
                       parsed |-> [args |-> <<>>, err |-> NoErr],
                       ret |-> ToolReturn([output |-> NoOutput, err |-> NoErr],
                                          InitialFiles, <<>>)]

\* one call of parseCommandLine
ParseCommand ==
    /\ shellCheck.state = "given"
    /\ shellCheck' = [shellCheck EXCEPT !.state = "parsed",
                                        !.parsed = parseCommandLine(shellCheck.command)]
    /\ UNCHANGED <<loopVars, pathCheck, proc, later>>

ParseNext == ParseCommand \/ \E procOutcome \in ProcOutcomes : ExecuteShell(procOutcome)

ParseSpec == ParseInit /\ [][ParseNext]_vars

\* The command line read by its grammar: a backslash and the character after
\* it, a single-quoted stretch up to the next single quote, a double-quoted
\* stretch in which the backslash still escapes, a separator, or a plain
\* character.  The result is the list of separators and literal characters,
\* or not ok when the input ends inside one of the first three.
Malformed == [ok |-> FALSE, items |-> <<>>]

Literal(c) == [sep |-> FALSE, ch |-> c]

Then(items, r) == IF r.ok THEN [ok |-> TRUE, items |-> items \o r.items] ELSE r

\* the position of the first c in s, 0 if there is none
FirstIndex(s, c) ==
    IF \E j \in 1..Len(s) : s[j] = c
    THEN CHOOSE j \in 1..Len(s) : s[j] = c /\ \A k \in 1..(j - 1) : s[k] # c
    ELSE 0

RECURSIVE ReadPlain(_)
RECURSIVE ReadDouble(_)

ReadSingle(s, close) ==
    IF close = 0 THEN Malformed
    ELSE Then([k \in 1..(close - 1) |-> Literal(s[k])],
              ReadPlain(SubSeq(s, close + 1, Len(s))))

ReadPlain(s) ==
    IF s = <<>> THEN [ok |-> TRUE, items |-> <<>>]
    ELSE IF Head(s) = "\\"
    THEN IF Len(s) = 1 THEN Malformed
         ELSE Then(<<Literal(s[2])>>, ReadPlain(SubSeq(s, 3, Len(s))))
    ELSE IF Head(s) = "'" THEN ReadSingle(Tail(s), FirstIndex(Tail(s), "'"))
    ELSE IF Head(s) = "\"" THEN ReadDouble(Tail(s))
    ELSE IF Head(s) \in {" ", "\t"}
    THEN Then(<<[sep |-> TRUE, ch |-> ""]>>, ReadPlain(Tail(s)))
    ELSE Then(<<Literal(Head(s))>>, ReadPlain(Tail(s)))

ReadDouble(s) ==
    IF s = <<>> THEN Malformed
    ELSE IF Head(s) = "\"" THEN ReadPlain(Tail(s))
    ELSE IF Head(s) = "\\"
    THEN IF Len(s) = 1 THEN Malformed
         ELSE Then(<<Literal(s[2])>>, ReadDouble(SubSeq(s, 3, Len(s))))
    ELSE Then(<<Literal(Head(s))>>, ReadDouble(Tail(s)))

\* the non-empty stretches of literal characters between separators
RECURSIVE Stretches(_, _)
Stretches(items, cur) ==
    IF items = <<>> THEN (IF cur = <<>> THEN <<>> ELSE <<cur>>)
    ELSE IF Head(items).sep
    THEN (IF cur = <<>> THEN <<>> ELSE <<cur>>) \o Stretches(Tail(items), <<>>)
    ELSE Stretches(Tail(items), Append(cur, Head(items).ch))

ParseDone == shellCheck.state = "parsed"

OnlySeparators(s) == s # <<>> /\ \A k \in 1..Len(s) : s[k] \in {" ", "\t"}

\* C21: parseCommandLine fails exactly when the input ends inside a single or
\* double quote or right after an unescaped backslash; otherwise it returns
\* the stretches between unquoted spaces and tabs, quotes removed, nothing
\* interpreted inside single quotes, and a backslash elsewhere replaced by
\* the character after it.  A command of spaces and tabs only parses to an
\* empty argv, and run_shell answers it with ok=false "command is required".
C21_ParseMatchesGrammar ==
    /\ ParseDone
         => /\ shellCheck.parsed.err.isNil <=> ReadPlain(shellCheck.command).ok
            /\ shellCheck.parsed.err.isNil
                 => shellCheck.parsed.args
                      = Stretches(ReadPlain(shellCheck.command).items, <<>>)
            /\ ~shellCheck.parsed.err.isNil => shellCheck.parsed.args = <<>>
            /\ OnlySeparators(shellCheck.command)
                 => shellCheck.parsed.err.isNil /\ shellCheck.parsed.args = <<>>
    /\ (ShellDone /\ OnlySeparators(shellCheck.command))
         => /\ ~shellCheck.ret.output.ok
            /\ shellCheck.ret.output.error.text = "command is required"
            /\ shellCheck.ret.procs = <<>>

C21_Witness ==
    /\ ParseDone
    /\ shellCheck.command = <<"a"," ","\"","a","\\","\"","'","\""," ","'","'">>
    /\ shellCheck.parsed.err.isNil
    /\ shellCheck.parsed.args = << <<"a">>, <<"a","\"","'">> >>

\* C30: parseCommandLine returns no empty token: an empty pair of quotes
\* contributes no token, and every token returned has at least one character.
C30_NoEmptyToken ==
    ParseDone
        => /\ \A k \in 1..Len(shellCheck.parsed.args) : Len(shellCheck.parsed.args[k]) >= 1
           /\ shellCheck.command \in { <<"a"," ","\"","\"">>, <<"a"," ","'","'">> }
                => shellCheck.parsed.args = << <<"a">> >>

C30_Witness ==
    /\ ParseDone
    /\ shellCheck.command = <<"a"," ","\"","\"">>
    /\ shellCheck.parsed.err.isNil
    /\ shellCheck.parsed.args = << <<"a">> >>

(***************************************************************************)
(* write_file and read_file called one after the other on the same file    *)
(* system.  Beside the file system the state keeps the last call and, for  *)
(* the file the calls can create, what the write that created it with      *)
(* overwrite=false wrote and whether an overwriting write has succeeded on *)
(* it since.                                                               *)
(***************************************************************************)
NotMade == [made |-> FALSE, content |-> <<>>, intact |-> TRUE]

FileInit ==
    /\ LoopInit
    /\ config.MaxTurns = 1
    /\ pathCheck = NoCall
    /\ shellCheck = NoCall
    /\ proc = NoCall
    /\ envCheck = NoCall
    /\ chat = NoCall
    /\ fileCheck = [files |-> InitialFiles,
                    first |-> [p \in { <<"/","s","/","n">> } |-> NotMade],
                    last |-> [tool |-> "none", path |-> <<>>, content |-> <<>>,
                              overwrite |-> FALSE, max_bytes |-> 0,
                              output |-> NoOutput, before |-> InitialFiles]]

\* what is remembered of the creating write of the file abs after a
\* write_file call
firstAfter(first, abs, content, overwrite, ok) ==
    IF ~ok \/ abs \notin DOMAIN first THEN first
    ELSE IF ~overwrite /\ ~first[abs].made
    THEN [first EXCEPT ![abs] = [made |-> TRUE, content |-> content, intact |-> TRUE]]
    ELSE IF first[abs].made
    THEN [first EXCEPT ![abs].intact = FALSE]
    ELSE first

writeReturned(path, content, overwrite, ret) ==
    fileCheck' = [files |-> ret.files,
                  first |-> firstAfter(fileCheck.first, Abs(path), content, overwrite,
                                       ret.output.ok),
                  last |-> [tool |-> "write_file", path |-> path, content |-> content,
                            overwrite |-> overwrite, max_bytes |-> 0,
                            output |-> ret.output, before |-> fileCheck.files]]

\* one call of write_file
WriteCall(path, content, overwrite) ==
    /\ writeReturned(path, content, overwrite,
                     writeFileExecute(ArgsOf({"path", "content", "overwrite"},
                                             [path |-> path, content |-> content,
                                              overwrite |-> overwrite]),
                                      fileCheck.files))
    /\ UNCHANGED <<loopVars, pathCheck, shellCheck, proc, envCheck, chat>>

\* one call of read_file
ReadCall(path, max_bytes) ==
    /\ fileCheck' = [fileCheck EXCEPT
                       !.last = [tool |-> "read_file", path |-> path, content |-> <<>>,
                                 overwrite |-> FALSE, max_bytes |-> max_bytes,
                                 output |-> readFileExecute(
                                               ArgsOf({"path", "max_bytes"},
                                                      [path |-> path, max_bytes |-> max_bytes]),
                                               fileCheck.files).output,
                                 before |-> fileCheck.files]]
    /\ UNCHANGED <<loopVars, pathCheck, shellCheck, proc, envCheck, chat>>

FileNext ==
    \/ \E path \in { <<"n">>, <<"/","s","/","n">>, <<"/","e","/","q">> },
          content \in { <<>>, <<"h","i">>, <<"y","o","u">> },
          overwrite \in BOOLEAN :
         WriteCall(path, content, overwrite)
    \/ \E path \in { <<"n">>, <<".">>, <<"/","e","/","p">> },
          max_bytes \in { -1, 0, 2, 3, 2^(IntBits - 1) - 1 } :
         ReadCall(path, max_bytes)

FileSpec == FileInit /\ [][FileNext]_vars

LastPath == Abs(fileCheck.last.path)

\* the last call is a write_file with overwrite=false to a file that a
\* write_file with overwrite=false created before
LaterWrite ==
    /\ fileCheck.last.tool = "write_file"
    /\ ~fileCheck.last.overwrite
    /\ LastPath \in DOMAIN fileCheck.first
    /\ fileCheck.first[LastPath].made
    /\ Exists(fileCheck.last.before, LastPath)

\* C22 as stated: every later write_file with overwrite=false to a file that
\* a write_file with overwrite=false created returns ok=false and leaves the
\* content as the first write left it.
C22_FirstContentKept ==
    LaterWrite
        => /\ ~fileCheck.last.output.ok
           /\ fileCheck.files[LastPath].content = fileCheck.first[LastPath].content

\* C22: every later write_file with overwrite=false to a file that a
\* write_file with overwrite=false created returns ok=false and leaves the
\* file system as it was before the call; the content is as the first write
\* left it unless a write_file with overwrite=true has succeeded on the path
\* in between.
C22_NoOverwrite ==
    LaterWrite
        => /\ ~fileCheck.last.output.ok
           /\ fileCheck.last.output.error.text = "file exists: "
           /\ fileCheck.files = fileCheck.last.before
           /\ fileCheck.first[LastPath].intact
                => fileCheck.files[LastPath].content = fileCheck.first[LastPath].content

C22_Witness ==
    /\ LaterWrite
    /\ fileCheck.last.path = <<"/","s","/","n">>
    /\ fileCheck.last.content = <<"y","o","u">>
    /\ fileCheck.first[LastPath].intact
    /\ fileCheck.files[LastPath].content = <<"h","i">>
    /\ ~fileCheck.last.output.ok

\* the last call is a read_file of a regular file inside the allowed root
ReadOfFile ==
    /\ fileCheck.last.tool = "read_file"
    /\ validatePathWithAllowedDirs(fileCheck.last.path, AllowedDirs).err.isNil
    /\ Exists(fileCheck.files, LastPath)
    /\ ~fileCheck.files[LastPath].isDir

Cap == IF fileCheck.last.max_bytes > 0 THEN fileCheck.last.max_bytes ELSE DefaultMaxReadBytes

Smaller(a, b) == IF a < b THEN a ELSE b

\* C23: read_file on an existing regular file returns the first
\* min(size, cap) bytes, bytes equal to that count, and truncated exactly when
\* the size exceeds cap, where cap is max_bytes when it is positive and the
\* default cap otherwise.
C23_ReadReturnsPrefix ==
    ReadOfFile
        => /\ fileCheck.last.output.ok
           /\ fileCheck.last.output.data.content
                = SubSeq(fileCheck.files[LastPath].content, 1,
                         Smaller(Len(fileCheck.files[LastPath].content), Cap))
           /\ fileCheck.last.output.data.bytes
                = Smaller(Len(fileCheck.files[LastPath].content), Cap)
           /\ fileCheck.last.output.data.truncated
                <=> Len(fileCheck.files[LastPath].content) > Cap

(***************************************************************************)
(* sanitizedEnv looked at on its own.  An environment is a list of         *)
(* NAME=value entries.  The state holds two parent environments, the       *)
(* second obtained from the first by adding and dropping variables that    *)
(* are not on the allow-list, and the environment a subprocess gets from   *)
(* each.                                                                   *)
(***************************************************************************)
MaxEnvLen == 3

\* prefixes that lack the "=" closing the name
allowedPrefixesBare ==
    << <<"P","A","T","H">>,
       <<"H","O","M","E">>,
       <<"U","S","E","R">>,
       <<"L","O","G","N","A","M","E">>,
       <<"S","H","E","L","L">>,
       <<"T","M","P","D","I","R">>,
       <<"T","M","P">>,
       <<"T","E","M","P">>,
       <<"L","A","N","G">>,
       <<"L","C","_">>,
       <<"T","E","R","M">>,
       <<"P","W","D">> >>

allowedPrefixes ==
    << <<"P","A","T","H","=">>,
       <<"H","O","M","E","=">>,
       <<"U","S","E","R","=">>,
       <<"L","O","G","N","A","M","E","=">>,
       <<"S","H","E","L","L","=">>,
       <<"T","M","P","D","I","R","=">>,
       <<"T","M","P","=">>,
       <<"T","E","M","P","=">>,
       <<"L","A","N","G","=">>,
       <<"L","C","_">>,
       <<"T","E","R","M","=">>,
       <<"P","W","D","=">> >>

KeptEntry(kv) == \E k \in 1..Len(allowedPrefixes) : HasPrefix(kv, allowedPrefixes[k])

\* sanitizedEnv: the entries of os.Environ() that start with an allowed
\* prefix, in their order; the slice is made, so it is never nil
sanitizedEnv(environ) == [isNil |-> FALSE, list |-> SelectSeq(environ, KeptEntry)]

\* the environment exec gives the process: cmd.Env, or the parent's when
\* cmd.Env is nil
environOf(cmdEnv, parent) == IF cmdEnv.isNil THEN parent ELSE cmdEnv.list

\* the name of an entry
NameOf(kv) == SubSeq(kv, 1, FirstIndex(kv, "=") - 1)

\* entries of variables on the allow-list and of others, two values each
SafeEntries ==
    { n \o <<"=">> \o v : n \in { <<"P","A","T","H">>, <<"L","C","_","A">>, <<"T","E","R","M">> },
                          v \in { <<"1">>, <<"2">> } }

OtherEntries ==
    { n \o <<"=">> \o v : n \in { <<"K","E","Y">>, <<"P","A","T","H","X">>, <<"L","C","X">> },
                          v \in { <<"1">>, <<"2">> } }

DistinctNames(env) ==
    \A a, b \in 1..Len(env) : a # b => NameOf(env[a]) # NameOf(env[b])

EnvInit ==
    /\ LoopInit
    /\ config.MaxTurns = 1
    /\ pathCheck = NoCall
    /\ shellCheck = NoCall
    /\ proc = NoCall
    /\ fileCheck = NoCall
    /\ chat = NoCall
    /\ \E parent \in UNION { [1..k -> SafeEntries \cup OtherEntries] : k \in 0..(MaxEnvLen - 1) } :
         /\ DistinctNames(parent)
         /\ envCheck = [state |-> "given", parent |-> parent, other |-> parent,
                        child |-> <<>>, otherChild |-> <<>>]

\* a variable that is not on the allow-list is set in the second parent
SetOther(kv, at) ==
    /\ envCheck.state = "given"
    /\ Len(envCheck.other) < MaxEnvLen
    /\ at \in 0..Len(envCheck.other)
    /\ \A k \in 1..Len(envCheck.other) : NameOf(envCheck.other[k]) # NameOf(kv)
    /\ envCheck' = [envCheck EXCEPT
                      !.other = SubSeq(envCheck.other, 1, at) \o <<kv>>
                                \o SubSeq(envCheck.other, at + 1, Len(envCheck.other))]
    /\ UNCHANGED <<loopVars, pathCheck, shellCheck, proc, fileCheck, chat>>

\* a variable that is not on the allow-list is unset in the second parent
UnsetOther(at) ==
    /\ envCheck.state = "given"
    /\ at \in 1..Len(envCheck.other)
    /\ envCheck.other[at] \in OtherEntries
    /\ envCheck' = [envCheck EXCEPT
                      !.other = SubSeq(envCheck.other, 1, at - 1)
                                \o SubSeq(envCheck.other, at + 1, Len(envCheck.other))]
    /\ UNCHANGED <<loopVars, pathCheck, shellCheck, proc, fileCheck, chat>>

\* runCommand sets cmd.Env = sanitizedEnv() under each parent environment
SanitizeEnv ==
    /\ envCheck.state = "given"
    /\ envCheck' = [envCheck EXCEPT
                      !.state = "started",
                      !.child = environOf(sanitizedEnv(envCheck.parent), envCheck.parent),
                      !.otherChild = environOf(sanitizedEnv(envCheck.other), envCheck.other)]
    /\ UNCHANGED <<loopVars, pathCheck, shellCheck, proc, fileCheck, chat>>

EnvNext ==
    \/ \E kv \in OtherEntries, at \in 0..MaxEnvLen : SetOther(kv, at)
    \/ \E at \in 1..MaxEnvLen : UnsetOther(at)
    \/ SanitizeEnv

EnvSpec == EnvInit /\ [][EnvNext]_vars

\* the names the subprocess may see
AllowedName(n) ==
    \/ n \in { <<"P","A","T","H">>,
            <<"H","O","M","E">>,
            <<"U","S","E","R">>,
            <<"L","O","G","N","A","M","E">>,
            <<"S","H","E","L","L">>,
            <<"T","M","P","D","I","R">>,
            <<"T","M","P">>,
            <<"T","E","M","P">>,
            <<"L","A","N","G">>,
            <<"T","E","R","M">>,
            <<"P","W","D">> }
    \/ HasPrefix(n, <<"L","C","_">>)

\* C24: every entry of the environment a subprocess gets is an entry of the
\* parent whose name is on the allow-list or starts with LC_, and two parents
\* that differ only in other variables give the subprocess the same
\* environment.
C24_EnvAllowListed ==
    envCheck.state = "started"
        => /\ \A k \in 1..Len(envCheck.child) :
                /\ AllowedName(NameOf(envCheck.child[k]))
                /\ \E j \in 1..Len(envCheck.parent) : envCheck.parent[j] = envCheck.child[k]
           /\ envCheck.child = envCheck.otherChild

C24_Witness ==
    /\ envCheck.state = "started"
    /\ envCheck.parent = << <<"K","E","Y","=","1">>, <<"P","A","T","H","=","2">> >>
    /\ envCheck.other = << <<"P","A","T","H","X","=","1">>, <<"P","A","T","H","=","2">>, <<"L","C","X","=","2">> >>
    /\ envCheck.child = << <<"P","A","T","H","=","2">> >>
    /\ envCheck.otherChild = envCheck.child

(***************************************************************************)
(* Reset and what every state of the history has in common.                *)
(***************************************************************************)
\* the history of an AgentLoop that New has just built
FreshHistory == <<SystemMessage(SystemPrompt)>>

\* Reset was called and no Run has been called since
JustReset == resetAt = runs

\* the last Run called is the first one since a Reset
RunAfterReset == resetAt >= 0 /\ runs = resetAt + 1

\* a message list holds the system message, one user message, and after them
\* only what the model and the tools answered
OnlyThisRun(messages) ==
    /\ Len(messages) >= 2
    /\ messages[1] = SystemMessage(SystemPrompt)
    /\ messages[2].role = "user"
    /\ \A j \in 3..Len(messages) : messages[j].role \in {"assistant", "tool"}

\* C25: after Reset the history is exactly the system message built at
\* construction, until the next Run; the Run made after a Reset started from
\* that history, and every message list it sends to the model holds the
\* system message, its own user message and its own replies and tool
\* results, nothing of an earlier Run
C25_ResetDropsEarlierRuns ==
    /\ JustReset => history = FreshHistory
    /\ RunAfterReset =>
          /\ historyBefore = FreshHistory
          /\ \A i \in 1..Len(sent) : OnlyThisRun(sent[i])

\* a first Run wrote a file, Reset followed, and the second Run has sent two
\* requests without writing anything itself
C25_Witness ==
    /\ runs = 2
    /\ resetAt = 1
    /\ Len(sent) = 2
    /\ Len(sent[2]) > 2
    /\ files # InitialFiles
    /\ \A i \in 1..Len(dispatched) : ~dispatched[i].changed

\* C28: in every state the history is non-empty and starts with the system
\* message of the prompt fixed at construction; a Run whose input is empty
\* or whitespace-only returns an error, makes no round-trip to the model and
\* leaves the history as it was
C28_HistoryKeepsSystemPrompt ==
    /\ [](history # <<>> /\ history[1] = SystemMessage(SystemPrompt))
    /\ [][\A userInput \in UserInputs :
            (TrimSpace(userInput) = <<>> /\ Run(userInput)) =>
                /\ outcome'.kind = "error"
                /\ outcome'.err = ErrUserInputRequired
                /\ roundTrips' = 0
                /\ history' = history
                /\ pc' = "idle"]_vars

\* a Run with a blank input has returned its error after an earlier Run had
\* put its messages in the history
C28_Witness ==
    /\ runs = 2
    /\ outcome.kind = "error"
    /\ outcome.err = ErrUserInputRequired
    /\ Len(history) > 2
    /\ history = historyBefore
    /\ roundTrips = 0

(***************************************************************************)
(* What run_shell starts.                                                  *)
(***************************************************************************)
\* the process a returned run_shell call has started
StartedByShell == shellCheck.ret.procs[1]

OneRoot == pathCheck.allowedDirs = <<Cwd>>

\* the absolute form of the path starts with the characters of the root
StartsLikeRoot == HasPrefix(Abs(pathCheck.path), Cwd)

\* the absolute form of the path is the root, or goes on with a separator
\* after it
WholeSegment ==
    \/ Abs(pathCheck.path) = Cwd
    \/ HasPrefix(Abs(pathCheck.path), Cwd \o <<Sep>>)

\* C29: with the one allowed root /s, a path free of ".." whose absolute
\* form starts with the characters "/s" is accepted exactly when it is /s
\* itself or goes on with a separator (/s/e); when other characters follow
\* (/se, /ss/e) it is rejected as outside the allowed directories
C29_SegmentsNotPrefixes ==
    (/\ PathDone
     /\ OneRoot
     /\ pathCheck.path # <<>>
     /\ ~HasDotDotSegment(Clean(pathCheck.path))
     /\ StartsLikeRoot)
        => /\ WholeSegment
              => /\ pathCheck.validated.err.isNil
                 /\ pathCheck.validated.path = Abs(pathCheck.path)
           /\ ~WholeSegment
              => /\ ~pathCheck.validated.err.isNil
                 /\ pathCheck.validated.err.text = "path outside allowed directories: "
                 /\ pathCheck.validated.path = <<>>
                 /\ pathCheck.state = "read" => ~pathCheck.read.ok

\* /ss/e starts with the characters of the root /s and was rejected, by the
\* guard and by read_file
C29_Witness ==
    /\ pathCheck.state = "read"
    /\ OneRoot
    /\ pathCheck.path = <<"/","s","s","/","e">>
    /\ pathCheck.validated.err.text = "path outside allowed directories: "
    /\ pathCheck.validated.path = <<>>
    /\ ~pathCheck.read.ok

(***************************************************************************)
(* App.Chat and App.runChatLoop looked at on their own: one chat request,  *)
(* the replies of the model turn by turn, and what the call returns.       *)
(***************************************************************************)
ErrChatMaxTurns == Err("max turns reached without assistant content", "", <<>>)

\* the turn budget App.Chat hands to runChatLoop, and runChatLoop's own floor
chatMaxTurns(optMaxTurns, cfg) ==
    IF (IF optMaxTurns <= 0 THEN cfg.MaxTurns ELSE optMaxTurns) <= 0
    THEN 1
    ELSE IF optMaxTurns <= 0 THEN cfg.MaxTurns ELSE optMaxTurns

\* lastContent after a reply: a content that is not blank replaces it
chatLastContent(lastContent, content) ==
    IF TrimSpace(content) # <<>> THEN content ELSE lastContent

\* lastContent when the reply carries no tool call
chatFinalContent(lastContent, content) ==
    IF chatLastContent(lastContent, content) = <<>>
    THEN content
    ELSE chatLastContent(lastContent, content)

\* what App.Chat returns from what runChatLoop returned
chatResult(content, err) ==
    IF ~err.isNil
    THEN [kind |-> "error", content |-> <<>>, err |-> err, appended |-> FALSE]
    ELSE [kind |-> "ok", content |-> content, err |-> NoErr,
          appended |-> TrimSpace(content) # <<>>]

\* runChatLoop after its for loop has used up the turns
chatAfterLoop(lastContent) ==
    IF lastContent = <<>>
    THEN chatResult(<<>>, ErrChatMaxTurns)
    ELSE chatResult(lastContent, NoErr)

\* the range loop over message.ToolCalls: each call is executed and its
\* output, or the error envelope, is appended as a tool message
RECURSIVE chatToolResponses(_, _, _, _, _)
chatAfterCall(rest, messages, call, ret, ctxDone, procOutcome) ==
    chatToolResponses(rest, Append(messages, ToolMessage(toolOutput(ret), call.id)),
                      ret.files, ctxDone, procOutcome)

chatToolResponses(calls, messages, fs, ctxDone, procOutcome) ==
    IF calls = <<>>
    THEN [messages |-> messages, files |-> fs]
    ELSE chatAfterCall(Tail(calls), messages, Head(calls),
                       Execute(Head(calls), ctxDone, fs, procOutcome).ret,
                       ctxDone, procOutcome)

\* message.Content of a reply: nothing, blanks, a text
Contents == { <<>>, <<" ">>, <<"o","k">> }

ChatInit ==
    /\ LoopInit
    /\ config.MaxTurns = 1
    /\ pathCheck = NoCall
    /\ shellCheck = NoCall
    /\ proc = NoCall
    /\ fileCheck = NoCall
    /\ envCheck = NoCall
    /\ \E optMaxTurns \in (-1)..MaxTurnsBound :
         chat = [state |-> "loopHead",
                 maxTurns |-> chatMaxTurns(optMaxTurns, config),
                 turn |-> 0,
                 lastContent |-> <<>>,
                 messages |-> <<SystemMessage(SystemPrompt), UserMessage(<<"h","i">>)>>,
                 currentMessages |-> <<SystemMessage(SystemPrompt),
                                       UserMessage(<<"h","i">>)>>,
                 files |-> InitialFiles,
                 ctxDone |-> FALSE,
                 replies |-> <<>>,
                 result |-> chatResult(<<>>, NoErr)]

\* the for loop enters a turn and runChatOnce sends the request
ChatSend ==
    /\ chat.state = "loopHead"
    /\ chat.turn < chat.maxTurns
    /\ chat' = [chat EXCEPT !.state = "awaitingModel"]
    /\ UNCHANGED <<loopVars, pathCheck, shellCheck, proc, fileCheck, envCheck>>

\* the for loop ends: the turn counter has reached maxTurns
ChatMaxTurns ==
    /\ chat.state = "loopHead"
    /\ ~(chat.turn < chat.maxTurns)
    /\ chat' = [chat EXCEPT !.state = "returned",
                            !.result = chatAfterLoop(chat.lastContent)]
    /\ UNCHANGED <<loopVars, pathCheck, shellCheck, proc, fileCheck, envCheck>>

\* runChatOnce fails: the request returns an error (always, once the context
\* is done) or the completion has no choice
ChatReplyError(e) ==
    /\ chat.state = "awaitingModel"
    /\ chat.ctxDone => e = ErrRequest
    /\ chat' = [chat EXCEPT !.state = "returned",
                            !.currentMessages = chat.messages,
                            !.result = chatResult(<<>>, e)]
    /\ UNCHANGED <<loopVars, pathCheck, shellCheck, proc, fileCheck, envCheck>>

\* the model answers with a message that carries no tool call
ChatReplyFinal(content) ==
    /\ chat.state = "awaitingModel"
    /\ ~chat.ctxDone
    /\ chat' = [chat EXCEPT
                  !.state = "returned",
                  !.lastContent = chatFinalContent(chat.lastContent, content),
                  !.currentMessages = Append(chat.currentMessages,
                                             AssistantMessage(content, <<>>)),
                  !.replies = Append(chat.replies, [content |-> content, calls |-> 0]),
                  !.result = chatResult(chatFinalContent(chat.lastContent, content), NoErr)]
    /\ UNCHANGED <<loopVars, pathCheck, shellCheck, proc, fileCheck, envCheck>>

\* the rest of a turn whose reply carries the tool calls: the message is
\* appended, every call is executed, and the turn is counted
chatToolTurn(content, calls, after) ==
    chat' = [chat EXCEPT
               !.state = "loopHead",
               !.turn = chat.turn + 1,
               !.lastContent = chatLastContent(chat.lastContent, content),
               !.currentMessages = after.messages,
               !.files = after.files,
               !.replies = Append(chat.replies,
                                  [content |-> content, calls |-> Len(calls)])]

\* message.ToolCalls of the reply of turn t
chatCallsOf(batch, t) ==
    [i \in 1..Len(batch) |->
        [id |-> t * 10 + i, name |-> batch[i].name, arguments |-> batch[i].arguments]]

\* the model answers with tool calls, with or without a content beside them
ChatReplyToolCalls(content, batch, procOutcome) ==
    /\ chat.state = "awaitingModel"
    /\ ~chat.ctxDone
    /\ chatToolTurn(content, chatCallsOf(batch, chat.turn),
                    chatToolResponses(
                        chatCallsOf(batch, chat.turn),
                        Append(chat.currentMessages,
                               AssistantMessage(content, chatCallsOf(batch, chat.turn))),
                        chat.files, chat.ctxDone, procOutcome))
    /\ UNCHANGED <<loopVars, pathCheck, shellCheck, proc, fileCheck, envCheck>>

\* the caller cancels the context of the App
ChatCancel ==
    /\ chat.state \in {"loopHead", "awaitingModel"}
    /\ ~chat.ctxDone
    /\ chat' = [chat EXCEPT !.ctxDone = TRUE]
    /\ UNCHANGED <<loopVars, pathCheck, shellCheck, proc, fileCheck, envCheck>>

ChatNext ==
    \/ ChatSend
    \/ ChatMaxTurns
    \/ \E e \in {ErrRequest, ErrEmptyChoices} : ChatReplyError(e)
    \/ \E content \in Contents : ChatReplyFinal(content)
    \/ \E content \in Contents, batch \in { <<ReadNotes>>, <<WriteNotes, ShellList>> },
          procOutcome \in ProcOutcomes :
          ChatReplyToolCalls(content, batch, procOutcome)
    \/ ChatCancel

ChatSpec == ChatInit /\ [][ChatNext]_vars

\* the call has returned because the turn counter reached the maximum
ChatOutOfTurns == chat.state = "returned" /\ chat.turn = chat.maxTurns

\* every reply of the model carried tool calls
NoFinalAnswer == \A i \in 1..Len(chat.replies) : chat.replies[i].calls > 0

\* C26: when the turn counter of runChatLoop reaches the configured maximum
\* and every reply of the model carried tool calls, the call returns an
\* error, also when some of the replies carried a text content
C26_MaxTurnsIsAnError ==
    (ChatOutOfTurns /\ NoFinalAnswer)
        => /\ chat.result.kind = "error"
           /\ ~chat.result.err.isNil

====
